---- MODULE Spec2Model ----
(***************************************************************************)
(* A model of nx-core: the build-time integer type selection of            *)
(* nx/core/integer.h and the bit primitives of nx/core/bits.h.             *)
(*                                                                         *)
(* Values of C++ integer types are modelled as bit vectors: the set of the *)
(* positions of their 1 bits.  A platform is the table of the bit widths   *)
(* of char, short, int, long and long long, the width of a pointer and of  *)
(* pid_t, and the toolchain that selects the branch of bits.h.  The        *)
(* variable location is the content of the memory location the field       *)
(* operations of bits.h read and write.                                    *)
(***************************************************************************)
EXTENDS Integers, FiniteSets, Sequences, TLC

VARIABLES platform, call, pc, result, location

vars == <<platform, call, pc, result, location>>

(***************************************************************************)
(* Bounds of the model.                                                    *)
(***************************************************************************)
\* requested bit counts are taken within Slack of every width
Slack == 1
\* operands of the arithmetic helpers include every number up to SmallOperand
SmallOperand == 3
\* exponents of Power include every number up to MaxPower
MaxPower == 4
\* a mask is built from at most MaxIndexes bit indexes
MaxIndexes == 3
\* a transaction joins at most MaxFields fields
MaxFields == 3
\* bit patterns of at most PatternBits bits are shifted to every position
PatternBits == 3

(***************************************************************************)
(* Bit vectors.                                                            *)
(***************************************************************************)
\* the widths a primitive integer type can have
Widths == {8, 16, 32, 64}

Max(S) == CHOOSE x \in S : \A y \in S : y <= x

Min(S) == CHOOSE x \in S : \A y \in S : x <= y

\* the bit vector of a natural number below 2^15
NatBV(n) == {i \in 0..14 : (n \div (2^i)) % 2 = 1}

\* conversion of an integer to an unsigned type of w bits (modulo 2^w):
\* a negative n becomes 2^w - |n|, the complement of |n| - 1
ToUnsigned(n, w) ==
  IF n < 0 THEN (0..(w - 1)) \ NatBV(-n - 1)
  ELSE NatBV(n) \cap (0..(w - 1))

\* a <= b on unsigned bit vectors: equal, or the highest differing bit is b's
BVLe(a, b) ==
  \/ a = b
  \/ Max((a \ b) \cup (b \ a)) \in b

(***************************************************************************)
(* Platforms: the candidate table and the toolchain.                       *)
(***************************************************************************)
\* the five candidate types, in the order IntegralLeastRangeSearch tests them
Candidates == <<"char", "short", "int", "long", "long long">>

IntegralTypes == {Candidates[i] : i \in 1..Len(Candidates)}

\* the width tables C++ allows over Widths: char <= short <= int <= long <=
\* long long, short and int of at least 16 bits, long of at least 32 bits and
\* long long of at least 64 bits
Tables ==
  {t \in [IntegralTypes -> Widths] :
     /\ t["char"] <= t["short"] /\ t["short"] <= t["int"]
     /\ t["int"] <= t["long"] /\ t["long"] <= t["long long"]
     /\ t["short"] >= 16 /\ t["long"] >= 32 /\ t["long long"] >= 64}

\* sizeof(void*) * CHAR_BIT: a pointer is at least as wide as int here, and a
\* three-byte pointer (width 24) matches no candidate
PointerWidths == {16, 24, 32, 64}

\* Visual Studio exists for one table only; GCC and Clang for every table
Toolchains(t) ==
  IF t["char"] = 8 /\ t["short"] = 16 /\ t["int"] = 32 /\ t["long"] = 32
  THEN {"gcc", "vs"} ELSE {"gcc"}

\* every platform: pid_t is a signed integer type as wide as int or as long
Platforms ==
  {p \in [sizes : Tables, pointer : PointerWidths, pid : Widths,
          toolchain : {"gcc", "vs"}] :
     /\ p.pointer >= p.sizes["int"]
     /\ p.pointer % p.sizes["char"] = 0
     /\ p.pid \in {p.sizes["int"], p.sizes["long"]}
     /\ p.toolchain \in Toolchains(p.sizes)}

\* the platforms the bit primitives are run on: char of 8 bits, and the
\* pointer and pid_t (which they never read) as wide as long and int
BitsPlatforms ==
  {p \in Platforms :
     /\ p.sizes["char"] = 8
     /\ p.pointer = p.sizes["long"]
     /\ p.pid = p.sizes["int"]}

\* the same platforms under a toolchain that is neither GCC, Clang nor
\* Visual Studio: os.h defines none of NX_TC_GCC, NX_TC_CLANG and NX_TC_VS
OtherPlatforms ==
  {[p EXCEPT !.toolchain = "other"] :
     p \in {q \in BitsPlatforms : q.toolchain = "gcc"}}

\* the width of unsigned int, in which bit counts are computed
UIntWidth(p) == p.sizes["int"]

(***************************************************************************)
(* mpl.h: types and their checks.                                          *)
(***************************************************************************)
\* a type after its sign has been set
Type(base, signed) == [base |-> base, signed |-> signed]

InvalidType == [base |-> "InvalidType", signed |-> FALSE]

\* the outcome of a metafunction: the type it provides, and whether a static
\* assertion has stopped the build
Outcome(type, halted) == [type |-> type, halted |-> halted]

\* faulty variant: the static assertion is missing
CheckValidTypeNeverHalts(kAssert, T, Fallback) ==
  IF T # InvalidType THEN Outcome(T, FALSE)
  ELSE Outcome(Fallback, FALSE)

CheckValidType(kAssert, T, Fallback) ==
  IF T # InvalidType THEN Outcome(T, FALSE)
  ELSE Outcome(Fallback, kAssert)

AssertValidType(T, Fallback) == CheckValidType(TRUE, T, Fallback)

IsValidType(T, Fallback) == CheckValidType(FALSE, T, Fallback)

\* faulty variant: kSigned is ignored
SetSignedAlways(kSigned, T) == Type(T, TRUE)

\* std::make_signed / std::make_unsigned of a candidate, chosen by kSigned
SetSigned(kSigned, T) == Type(T, kSigned)

(***************************************************************************)
(* bits.h: sizes.                                                          *)
(***************************************************************************)
\* sizeof(T) * CHAR_BIT converted to unsigned int
Size(p, T) == ToUnsigned(p.sizes[T], UIntWidth(p))

\* faulty variant: the bounds are accepted in either order
InRangeEitherOrder(p, T, min, max) ==
  \/ BVLe(min, Size(p, T)) /\ BVLe(Size(p, T), max)
  \/ BVLe(max, Size(p, T)) /\ BVLe(Size(p, T), min)

InRange(p, T, min, max) == BVLe(min, Size(p, T)) /\ BVLe(Size(p, T), max)

Fits(p, T, U) == BVLe(Size(p, T), Size(p, U))

(***************************************************************************)
(* integer.h: the selection.                                               *)
(***************************************************************************)
\* faulty variant: no preference is applied
PreferNothing(p, T, Preferred) == T

PreferIntegralType(p, T, Preferred) ==
  IF T \in IntegralTypes /\ Preferred \in IntegralTypes
  THEN (IF p.sizes[T] = p.sizes[Preferred] THEN Preferred ELSE T)
  ELSE T

PreferIntegralSign(kSigned, T) ==
  IF T \in IntegralTypes THEN SetSigned(kSigned, T)
  ELSE InvalidType

\* faulty variant: the last candidate in range is taken
RECURSIVE LastInRange(_, _, _, _)
LastInRange(p, kBitMin, kBitMax, i) ==
  IF i > Len(Candidates) THEN "InvalidType"
  ELSE LET rest == LastInRange(p, kBitMin, kBitMax, i + 1)
       IN IF rest # "InvalidType" THEN rest
          ELSE IF InRange(p, Candidates[i], kBitMin, kBitMax)
               THEN Candidates[i] ELSE "InvalidType"

\* the nested Conditional: the first candidate, from index i on, in range
RECURSIVE FirstInRange(_, _, _, _)
FirstInRange(p, kBitMin, kBitMax, i) ==
  IF i > Len(Candidates) THEN "InvalidType"
  ELSE IF InRange(p, Candidates[i], kBitMin, kBitMax) THEN Candidates[i]
  ELSE FirstInRange(p, kBitMin, kBitMax, i + 1)

IntegralLeastRangeSearch(p, kSigned, kBitMin, kBitMax) ==
  PreferIntegralSign(kSigned,
    PreferIntegralType(p,
      PreferIntegralType(p, FirstInRange(p, kBitMin, kBitMax, 1), "short"),
      "int"))

IntegralLeastRangeTraits(p, kSigned, kBitMin, kBitMax) ==
  AssertValidType(IntegralLeastRangeSearch(p, kSigned, kBitMin, kBitMax),
                  Type("int", TRUE))

integral_least_range_t(p, kSigned, kBitMin, kBitMax) ==
  IntegralLeastRangeTraits(p, kSigned, kBitMin, kBitMax)

\* ~0u, the default of kBitMax
AllOnes(p) == ToUnsigned(-1, UIntWidth(p))

int_t(p, kBits) == integral_least_range_t(p, TRUE, kBits, kBits)

int_least_t(p, kBits) == integral_least_range_t(p, TRUE, kBits, AllOnes(p))

uint_t(p, kBits) == integral_least_range_t(p, FALSE, kBits, kBits)

\* faulty variant: the upper limit is kBits, as in uint_t
UIntLeastAsExact(p, kBits) == integral_least_range_t(p, FALSE, kBits, kBits)

uint_least_t(p, kBits) == integral_least_range_t(p, FALSE, kBits, AllOnes(p))

uintptr_t(p) == uint_least_t(p, ToUnsigned(p.pointer, UIntWidth(p)))

intptr_t(p) == int_least_t(p, ToUnsigned(p.pointer, UIntWidth(p)))

uintpid_t(p) == uint_least_t(p, ToUnsigned(p.pid, UIntWidth(p)))

intpid_t(p) == int_least_t(p, ToUnsigned(p.pid, UIntWidth(p)))

(***************************************************************************)
(* The type selection as a state machine: each action instantiates one     *)
(* template of integer.h on the platform and records the outcome.          *)
(***************************************************************************)
\* the bit counts requested: around every width, and 0
ReqBits == {0} \cup {w + d : w \in Widths, d \in (0 - Slack)..Slack}

\* kBitMax as written by the caller: a bit count, or -1 for ~0u
ReqMax == ReqBits \cup {-1}

\* the fallback types a caller of CheckValidType supplies
Fallbacks == {Type("int", TRUE), Type("char", FALSE)}

\* nothing has been instantiated yet
NoResult == Outcome(InvalidType, FALSE)

Request(op, kSigned, kBitMin, kBitMax) ==
  [op |-> op, kSigned |-> kSigned, kBitMin |-> kBitMin, kBitMax |-> kBitMax]

\* the instantiations a translation unit can ask for
Calls ==
  {Request(op, s, lo, hi) :
     op \in {"integral_least_range_search_t", "integral_least_range_t"},
     s \in BOOLEAN, lo \in ReqBits, hi \in ReqMax}
  \cup {[op |-> op, kBits |-> n] :
          op \in {"int_t", "uint_t", "int_least_t", "uint_least_t"},
          n \in ReqBits}
  \cup {[op |-> op] : op \in {"uintptr_t", "intptr_t", "uintpid_t", "intpid_t"}}

\* the build of one instantiation on one platform
Init ==
  /\ platform \in Platforms
  /\ call \in Calls
  /\ pc = "ready"
  /\ result = NoResult
  /\ location = {}

\* the template argument n as the unsigned int the template receives
Arg(n) == ToUnsigned(n, UIntWidth(platform))

Resolve(op, outcome) ==
  /\ pc = "ready"
  /\ call.op = op
  /\ pc' = "done"
  /\ result' = outcome
  /\ UNCHANGED <<platform, call, location>>

\* integral_least_range_search_t<kSigned, kBitMin, kBitMax>
Search ==
  /\ call.op = "integral_least_range_search_t"
  /\ Resolve("integral_least_range_search_t",
       Outcome(IntegralLeastRangeSearch(platform, call.kSigned,
                 Arg(call.kBitMin), Arg(call.kBitMax)), FALSE))

\* CheckValidType<kAssert, T, Fallback> on the type T a search has provided
Check(kAssert, Fallback) ==
  /\ pc = "done"
  /\ call.op = "integral_least_range_search_t"
  /\ call' = [op |-> "CheckValidType", kAssert |-> kAssert, T |-> result.type,
              Fallback |-> Fallback]
  /\ result' = CheckValidType(kAssert, result.type, Fallback)
  /\ UNCHANGED <<platform, pc, location>>

\* integral_least_range_t<kSigned, kBitMin, kBitMax>
Range ==
  /\ call.op = "integral_least_range_t"
  /\ Resolve("integral_least_range_t",
       integral_least_range_t(platform, call.kSigned,
         Arg(call.kBitMin), Arg(call.kBitMax)))

\* int_t<kBits>
IntT ==
  /\ call.op = "int_t"
  /\ Resolve("int_t", int_t(platform, Arg(call.kBits)))

\* uint_t<kBits>
UIntT ==
  /\ call.op = "uint_t"
  /\ Resolve("uint_t", uint_t(platform, Arg(call.kBits)))

\* int_least_t<kBits>
IntLeastT ==
  /\ call.op = "int_least_t"
  /\ Resolve("int_least_t", int_least_t(platform, Arg(call.kBits)))

\* uint_least_t<kBits>
UIntLeastT ==
  /\ call.op = "uint_least_t"
  /\ Resolve("uint_least_t", uint_least_t(platform, Arg(call.kBits)))

UIntPtr ==
  /\ call.op = "uintptr_t"
  /\ Resolve("uintptr_t", uintptr_t(platform))

IntPtr ==
  /\ call.op = "intptr_t"
  /\ Resolve("intptr_t", intptr_t(platform))

UIntPid ==
  /\ call.op = "uintpid_t"
  /\ Resolve("uintpid_t", uintpid_t(platform))

IntPid ==
  /\ call.op = "intpid_t"
  /\ Resolve("intpid_t", intpid_t(platform))

Next ==
  \/ Search
  \/ \E kAssert \in BOOLEAN, Fallback \in Fallbacks : Check(kAssert, Fallback)
  \/ Range
  \/ IntT
  \/ UIntT
  \/ IntLeastT
  \/ UIntLeastT
  \/ UIntPtr
  \/ IntPtr
  \/ UIntPid
  \/ IntPid

Spec == Init /\ [][Next]_vars

(***************************************************************************)
(* Properties of the type selection.  They read the request as the caller  *)
(* wrote it (bit counts as numbers, -1 for the default ~0u) and the widths *)
(* of the platform's table directly.                                       *)
(***************************************************************************)
SearchOps == {"integral_least_range_search_t", "integral_least_range_t"}

ExactOps == {"int_t", "uint_t"}

LeastOps == {"int_least_t", "uint_least_t"}

PointerOps == {"uintptr_t", "intptr_t"}

PidOps == {"uintpid_t", "intpid_t"}

\* the ops that end in AssertValidType
PrimaryOps ==
  {"integral_least_range_t"} \cup ExactOps \cup LeastOps \cup PointerOps
    \cup PidOps

\* the request (signed, minBits, maxBits) an instantiation stands for;
\* maxBits = -1 is "no upper limit"
ReqSigned ==
  IF call.op \in SearchOps THEN call.kSigned
  ELSE call.op \in {"int_t", "int_least_t", "intptr_t", "intpid_t"}

ReqMin ==
  IF call.op \in SearchOps THEN call.kBitMin
  ELSE IF call.op \in ExactOps \cup LeastOps THEN call.kBits
  ELSE IF call.op \in PointerOps THEN platform.pointer
  ELSE platform.pid

ReqMaxBits ==
  IF call.op \in SearchOps THEN call.kBitMax
  ELSE IF call.op \in ExactOps THEN call.kBits
  ELSE -1

WidthInRequest(w) == ReqMin <= w /\ (ReqMaxBits = -1 \/ w <= ReqMaxBits)

\* the widths of the candidates that satisfy the request
MatchingWidths ==
  {platform.sizes[c] : c \in {d \in IntegralTypes :
                                WidthInRequest(platform.sizes[d])}}

Satisfiable == MatchingWidths # {}

Selected == pc = "done" /\ call.op \in SearchOps \cup PrimaryOps

WidthOf(type) == platform.sizes[type.base]

\* C1: a satisfiable request resolves to a type whose width lies in
\* [minBits, maxBits] and whose signedness is the requested one.
C1_SelectionInRange ==
  (Selected /\ call.op \in SearchOps /\ Satisfiable) =>
    /\ result.type # InvalidType
    /\ ~result.halted
    /\ WidthInRequest(WidthOf(result.type))
    /\ result.type.signed = call.kSigned

\* the short preference has replaced a matching char by an unsigned short
C1_Witness ==
  /\ Selected /\ call.op \in SearchOps /\ Satisfiable
  /\ platform.sizes["char"] = platform.sizes["short"]
  /\ WidthInRequest(platform.sizes["char"])
  /\ result.type = Type("short", FALSE)

\* C2: the resolved width is the least width of the candidates in range.
C2_LeastWidth ==
  (Selected /\ call.op \in SearchOps /\ Satisfiable) =>
    /\ result.type # InvalidType
    /\ WidthOf(result.type) = Min(MatchingWidths)

\* two widths are in range and the narrower one is taken
C2_Witness ==
  /\ Selected /\ call.op \in SearchOps
  /\ Cardinality(MatchingWidths) >= 2
  /\ WidthOf(result.type) = Min(MatchingWidths)
  /\ WidthOf(result.type) > platform.sizes["char"]

\* C3 as stated: at a width char and short share the result is short, and at
\* the width of int the result is int.
C3_TieBreakAsStated ==
  (Selected /\ call.op \in SearchOps /\ Satisfiable) =>
    /\ (/\ platform.sizes["char"] = platform.sizes["short"]
        /\ WidthOf(result.type) = platform.sizes["short"])
         => result.type.base = "short"
    /\ WidthOf(result.type) = platform.sizes["int"]
         => result.type.base = "int"

\* C3 (amended): at a width char and short share the result is never char; it
\* is short unless int has that width too; and at the width of int the result
\* is always int.
C3_TieBreak ==
  (Selected /\ call.op \in SearchOps /\ Satisfiable) =>
    /\ (/\ platform.sizes["char"] = platform.sizes["short"]
        /\ WidthOf(result.type) = platform.sizes["short"])
         => /\ result.type.base # "char"
            /\ platform.sizes["int"] # platform.sizes["short"]
                 => result.type.base = "short"
    /\ WidthOf(result.type) = platform.sizes["int"]
         => result.type.base = "int"

\* char, short and int share the selected width, and int is the result
C3_Witness ==
  /\ Selected /\ call.op \in SearchOps /\ Satisfiable
  /\ platform.sizes["char"] = platform.sizes["short"]
  /\ platform.sizes["short"] = platform.sizes["int"]
  /\ WidthOf(result.type) = platform.sizes["char"]
  /\ result.type.base = "int"

\* C4: an unsatisfiable request gives InvalidType from the search; on
\* InvalidType CheckValidType halts the build when kAssert and gives exactly
\* Fallback, without halting, when not; on any other type it gives that type;
\* the primary aliases halt the build exactly when the request is
\* unsatisfiable.
C4_Failure ==
  /\ (pc = "done" /\ call.op = "integral_least_range_search_t") =>
       /\ ~result.halted
       /\ (result.type = InvalidType) <=> ~Satisfiable
  /\ (pc = "done" /\ call.op = "CheckValidType") =>
       /\ (call.T = InvalidType /\ call.kAssert) => result.halted
       /\ (call.T = InvalidType /\ ~call.kAssert) =>
            result = Outcome(call.Fallback, FALSE)
       /\ call.T # InvalidType => result = Outcome(call.T, FALSE)
  /\ (pc = "done" /\ call.op \in PrimaryOps) =>
       /\ result.halted <=> ~Satisfiable
       /\ ~result.halted => result.type # InvalidType

\* a failed search has been passed on without assertion and gave the fallback
C4_Witness ==
  /\ pc = "done" /\ call.op = "CheckValidType"
  /\ call.T = InvalidType /\ ~call.kAssert
  /\ result = Outcome(Type("char", FALSE), FALSE)

\* a primary alias has halted the build
C4_WitnessHalt ==
  /\ pc = "done" /\ call.op = "integral_least_range_t"
  /\ ~Satisfiable /\ result.halted

\* the request has maxBits below minBits
Inverted ==
  /\ call.op \in SearchOps
  /\ call.kBitMax # -1 /\ call.kBitMax < call.kBitMin

\* what a request with no candidate in range gives
OrdinaryFailure ==
  IF call.op = "integral_least_range_search_t"
  THEN Outcome(InvalidType, FALSE)
  ELSE Outcome(Type("int", TRUE), TRUE)

\* C5 as stated: a request with maxBits < minBits has an outcome of its own,
\* distinct from the failure of a request that no candidate satisfies.
C5_InvertedRejectedAsStated ==
  (Selected /\ Inverted) => result # OrdinaryFailure

\* C5 (amended): a request with maxBits < minBits is not told apart: every
\* candidate is tested, none is in range, and the outcome is the ordinary
\* failure (InvalidType from the search, the static assertion of the alias).
C5_InvertedIsOrdinaryFailure ==
  (Selected /\ Inverted) => result = OrdinaryFailure

\* an inverted request whose bounds both enclose a candidate width has failed
C5_Witness ==
  /\ Selected /\ Inverted
  /\ \E c \in IntegralTypes :
       call.kBitMax <= platform.sizes[c] /\ platform.sizes[c] <= call.kBitMin
  /\ result = Outcome(InvalidType, FALSE)

\* C6: int_t<N> and uint_t<N> give a type of exactly N bits or halt the build;
\* int_least_t<N> and uint_least_t<N> give the narrowest candidate of at least
\* N bits, for every N up to the widest candidate; each with its signedness.
C6_Aliases ==
  /\ (pc = "done" /\ call.op \in ExactOps) =>
       \/ result.halted
       \/ /\ result.type # InvalidType
          /\ WidthOf(result.type) = call.kBits
          /\ result.type.signed = (call.op = "int_t")
  /\ (pc = "done" /\ call.op \in ExactOps /\ call.kBits \in Widths
        /\ \E c \in IntegralTypes : platform.sizes[c] = call.kBits) =>
       ~result.halted
  /\ (pc = "done" /\ call.op \in LeastOps
        /\ call.kBits <= platform.sizes["long long"]) =>
       /\ ~result.halted
       /\ result.type # InvalidType
       /\ WidthOf(result.type) =
            Min({platform.sizes[c] : c \in {d \in IntegralTypes :
                                             platform.sizes[d] >= call.kBits}})
       /\ result.type.signed = (call.op = "int_least_t")

\* a least-width alias has resolved to a type wider than asked for
C6_Witness ==
  /\ pc = "done" /\ call.op = "uint_least_t"
  /\ ~result.halted
  /\ WidthOf(result.type) > call.kBits
  /\ call.kBits > platform.sizes["char"]

\* an exact-width alias has halted the build
C6_WitnessExact ==
  /\ pc = "done" /\ call.op = "int_t" /\ result.halted

\* C7: uintptr_t and intptr_t have the bit size of a pointer, uintpid_t and
\* intpid_t the bit size of pid_t, whenever they resolve.
C7_PointerAndPidSize ==
  /\ (pc = "done" /\ call.op \in PointerOps /\ ~result.halted) =>
       WidthOf(result.type) = platform.pointer
  /\ (pc = "done" /\ call.op \in PidOps /\ ~result.halted) =>
       WidthOf(result.type) = platform.pid

(***************************************************************************)
(* bits.h: the bit primitives on run-time values.  An operand of the       *)
(* unsigned form of candidate T is a bit vector within 0..width(T)-1.      *)
(***************************************************************************)
\* static_cast<unsigned U>(value) of an unsigned value
Convert(p, value, U) == value \cap (0..(p.sizes[U] - 1))

\* __builtin_ctz, _BitScanForward: the zeros below the lowest 1 of x # 0
RECURSIVE CountTrailingZeros(_, _)
CountTrailingZeros(x, i) ==
  IF i \in x THEN 0 ELSE 1 + CountTrailingZeros(x, i + 1)

\* __builtin_clz: the zeros above the highest 1 of x # 0, in w bits
RECURSIVE CountLeadingZeros(_, _)
CountLeadingZeros(x, w) ==
  IF (w - 1) \in x THEN 0 ELSE 1 + CountLeadingZeros(x, w - 1)

\* __builtin_popcount, __popcnt: the 1 bits of x below bit w
RECURSIVE CountOnes(_, _)
CountOnes(x, w) ==
  IF w = 0 THEN 0
  ELSE (IF (w - 1) \in x THEN 1 ELSE 0) + CountOnes(x, w - 1)

\* what a call returns, or the failure of its overload resolution
Returned(value) == [value |-> value, halted |-> FALSE]

BuildFailure == [value |-> {}, halted |-> TRUE]

\* what the overload for unsigned U returns
ReturnedBy(U, value) == [value |-> value, halted |-> FALSE, via |-> U]

\* faulty variant: the wider overloads do not exclude the narrower operands
GccEnabledWithoutExclusion(p, T, U) ==
  U \in {"int", "long", "long long"} /\ Fits(p, T, U)

\* the EnableIf conditions of the GCC and Clang overloads
GccEnabled(p, T, U) ==
  CASE U = "long long" ->
         Fits(p, T, "long long") /\ ~Fits(p, T, "long")
    [] U = "long" -> Fits(p, T, "long") /\ ~Fits(p, T, "int")
    [] U = "int" -> Fits(p, T, "int")
    [] OTHER -> FALSE

\* the EnableIf conditions of the Visual Studio scans (unsigned __int64 is
\* unsigned long long there)
VsScanEnabled(p, T, U) ==
  CASE U = "long long" ->
         Fits(p, T, "long long") /\ ~Fits(p, T, "long")
    [] U = "long" -> Fits(p, T, "long")
    [] OTHER -> FALSE

\* the EnableIf conditions of the Visual Studio population counts
VsPopCountEnabled(p, T, U) ==
  CASE U = "long long" ->
         Fits(p, T, "long long") /\ ~Fits(p, T, "int")
    [] U = "int" -> Fits(p, T, "int") /\ ~Fits(p, T, "short")
    [] U = "short" -> Fits(p, T, "short")
    [] OTHER -> FALSE

\* the overloads of BitScanForward and BitScanReverse viable for T
ScanOverloads(p, T) ==
  CASE p.toolchain = "gcc" -> {U \in IntegralTypes : GccEnabled(p, T, U)}
    [] p.toolchain = "vs" -> {U \in IntegralTypes : VsScanEnabled(p, T, U)}
    [] OTHER -> {}

\* the overloads of PopCount viable for T
PopCountOverloads(p, T) ==
  CASE p.toolchain = "gcc" -> {U \in IntegralTypes : GccEnabled(p, T, U)}
    [] p.toolchain = "vs" ->
         {U \in IntegralTypes : VsPopCountEnabled(p, T, U)}
    [] OTHER -> {}

\* faulty variant: the stand-ins are compiled without the #error directive
DummyWithoutError(p, value) == Returned(ToUnsigned(0, UIntWidth(p)))

\* the #else branch: #error stops the build, and the stand-ins defined "to
\* reduce errors" return 0 whatever the value
Dummy(p, value) == [value |-> ToUnsigned(0, UIntWidth(p)), halted |-> TRUE]

\* faulty variant: the zero check is missing and the instruction reports the width
GccBitScanForwardNoZeroCheck(p, value, U) ==
  IF value # {}
  THEN ToUnsigned(CountTrailingZeros(Convert(p, value, U), 0), UIntWidth(p))
  ELSE ToUnsigned(p.sizes[U], UIntWidth(p))

\* value ? __builtin_ctz*(static_cast<U>(value)) : 0
GccBitScanForward(p, value, U) ==
  IF value # {}
  THEN ToUnsigned(CountTrailingZeros(Convert(p, value, U), 0), UIntWidth(p))
  ELSE ToUnsigned(0, UIntWidth(p))

\* index = 0; _BitScanForward*(&index, static_cast<U>(value)), which leaves
\* index as it is when no bit is set
VsBitScanForward(p, value, U) ==
  LET x == Convert(p, value, U)
      index == IF x # {} THEN CountTrailingZeros(x, 0) ELSE 0
  IN ToUnsigned(index, UIntWidth(p))

\* value ? bits::Size<T>() - 1 - __builtin_clz*(static_cast<U>(value)) : 0,
\* computed in unsigned int
GccBitScanReverse(p, T, value, U) ==
  IF value # {}
  THEN ToUnsigned(
         p.sizes[T] - 1 - CountLeadingZeros(Convert(p, value, U), p.sizes[U]),
         UIntWidth(p))
  ELSE ToUnsigned(0, UIntWidth(p))

\* index = 0; _BitScanReverse*(&index, static_cast<U>(value))
VsBitScanReverse(p, value, U) ==
  LET x == Convert(p, value, U)
      index == IF x # {}
               THEN p.sizes[U] - 1 - CountLeadingZeros(x, p.sizes[U]) ELSE 0
  IN ToUnsigned(index, UIntWidth(p))

\* faulty variant: the int instruction is used whatever the width of the operand
PopCountAsInt(p, value, U) ==
  ToUnsigned(CountOnes(Convert(p, value, "int"), p.sizes["int"]), UIntWidth(p))

\* __builtin_popcount*(static_cast<U>(value)), __popcnt*(static_cast<U>(value))
PopCountNative(p, value, U) ==
  ToUnsigned(CountOnes(Convert(p, value, U), p.sizes[U]), UIntWidth(p))

\* detail::BitScanForward(value): the one viable overload, if there is one
BitScanForward(p, T, value) ==
  LET viable == ScanOverloads(p, T)
  IN IF p.toolchain = "other" THEN Dummy(p, value)
     ELSE IF Cardinality(viable) # 1 THEN BuildFailure
     ELSE LET U == CHOOSE u \in viable : TRUE
          IN ReturnedBy(U, IF p.toolchain = "gcc"
                           THEN GccBitScanForward(p, value, U)
                           ELSE VsBitScanForward(p, value, U))

\* detail::BitScanReverse(value)
BitScanReverse(p, T, value) ==
  LET viable == ScanOverloads(p, T)
  IN IF p.toolchain = "other" THEN Dummy(p, value)
     ELSE IF Cardinality(viable) # 1 THEN BuildFailure
     ELSE LET U == CHOOSE u \in viable : TRUE
          IN ReturnedBy(U, IF p.toolchain = "gcc"
                           THEN GccBitScanReverse(p, T, value, U)
                           ELSE VsBitScanReverse(p, value, U))

\* detail::PopCount(value)
PopCountDetail(p, T, value) ==
  LET viable == PopCountOverloads(p, T)
  IN IF p.toolchain = "other" THEN Dummy(p, value)
     ELSE IF Cardinality(viable) # 1 THEN BuildFailure
     ELSE LET U == CHOOSE u \in viable : TRUE
          IN ReturnedBy(U, PopCountNative(p, value, U))

ScanForward(p, T, value) == BitScanForward(p, T, value)

ScanReverse(p, T, value) == BitScanReverse(p, T, value)

PopCount(p, T, value) == PopCountDetail(p, T, value)

(***************************************************************************)
(* bits.h: the bit primitives on build-time constants.  They recurse on    *)
(* the constant converted to the unsigned form of its type and shifted     *)
(* right by one; the counts are unsigned int.                              *)
(***************************************************************************)
\* static_cast<unsigned_T>(value_) >> 1
ShiftRightOne(value) == {i - 1 : i \in value \ {0}}

\* detail::BitScanForward<T, value_>(): 0 for !value_ || value_ & 1, else one
\* more than the scan of the shifted constant
RECURSIVE BitScanForwardStatic(_)
BitScanForwardStatic(value) ==
  IF value = {} \/ 0 \in value THEN 0
  ELSE 1 + BitScanForwardStatic(ShiftRightOne(value))

\* detail::BitScanReverse<T, value_>(): 0 for !value_ and for value_ == 1
RECURSIVE BitScanReverseStatic(_)
BitScanReverseStatic(value) ==
  IF value = {} THEN 0
  ELSE IF value = {0} THEN 0
  ELSE 1 + BitScanReverseStatic(ShiftRightOne(value))

\* detail::PopCount<T, value_>(): 0 for value_ == 0
RECURSIVE PopCountStaticDetail(_)
PopCountStaticDetail(value) ==
  IF value = {} THEN 0
  ELSE (IF 0 \in value THEN 1 ELSE 0) + PopCountStaticDetail(ShiftRightOne(value))

\* ScanForward<T, value_>()
ScanForwardStatic(p, value) ==
  Returned(ToUnsigned(BitScanForwardStatic(value), UIntWidth(p)))

\* ScanReverse<T, value_>()
ScanReverseStatic(p, value) ==
  Returned(ToUnsigned(BitScanReverseStatic(value), UIntWidth(p)))

\* PopCount<T, value_>()
PopCountStatic(p, value) ==
  Returned(ToUnsigned(PopCountStaticDetail(value), UIntWidth(p)))

(***************************************************************************)
(* The bit primitives as a state machine: one call of one primitive on one *)
(* platform.                                                               *)
(***************************************************************************)
\* the bits of S moved up by k, within w bits
Shifted(S, k, w) == {i + k : i \in S} \cap (0..(w - 1))

\* the operands of width w: every pattern of PatternBits bits at every
\* position, and the complements of these
Values(w) ==
  LET moved == {Shifted(S, k, w) :
                  S \in SUBSET (0..(PatternBits - 1)), k \in 0..(w - 1)}
  IN moved \cup {(0..(w - 1)) \ v : v \in moved}

BitOps == {"ScanForward", "ScanReverse", "PopCount"}

\* the same primitives with the operand as a template argument
StaticBitOps == {"ScanForward<>", "ScanReverse<>", "PopCount<>"}

BitCalls(p) ==
  UNION {{[op |-> op, T |-> T, value |-> v] :
            op \in BitOps \cup StaticBitOps, v \in Values(p.sizes[T])} :
           T \in IntegralTypes}

InitBits ==
  /\ platform \in BitsPlatforms
  /\ call \in BitCalls(platform)
  /\ pc = "ready"
  /\ result = NoResult
  /\ location = {}

DoScanForward ==
  /\ call.op = "ScanForward"
  /\ Resolve("ScanForward", ScanForward(platform, call.T, call.value))

DoScanReverse ==
  /\ call.op = "ScanReverse"
  /\ Resolve("ScanReverse", ScanReverse(platform, call.T, call.value))

DoPopCount ==
  /\ call.op = "PopCount"
  /\ Resolve("PopCount", PopCount(platform, call.T, call.value))

DoScanForwardStatic ==
  /\ call.op = "ScanForward<>"
  /\ Resolve("ScanForward<>", ScanForwardStatic(platform, call.value))

DoScanReverseStatic ==
  /\ call.op = "ScanReverse<>"
  /\ Resolve("ScanReverse<>", ScanReverseStatic(platform, call.value))

DoPopCountStatic ==
  /\ call.op = "PopCount<>"
  /\ Resolve("PopCount<>", PopCountStatic(platform, call.value))

NextBits ==
  \/ DoScanForward
  \/ DoScanReverse
  \/ DoPopCount
  \/ DoScanForwardStatic
  \/ DoScanReverseStatic
  \/ DoPopCountStatic

SpecBits == InitBits /\ [][NextBits]_vars

(***************************************************************************)
(* The run-time primitives under a toolchain without the native            *)
(* instructions.                                                           *)
(***************************************************************************)
InitOther ==
  /\ platform \in OtherPlatforms
  /\ call \in {c \in BitCalls(platform) : c.op \in BitOps}
  /\ pc = "ready"
  /\ result = NoResult
  /\ location = {}

NextOther ==
  \/ DoScanForward
  \/ DoScanReverse
  \/ DoPopCount

SpecOther == InitOther /\ [][NextOther]_vars

(***************************************************************************)
(* bits.h, mpl.h: the overflow test of a multiplication and Power.         *)
(* Arithmetic on bit vectors is exact; an operator of C++ then keeps the   *)
(* bits of the type the operation is carried out in.                       *)
(***************************************************************************)
\* the number made of the eight bits of S from bit b on
Byte(S, b) ==
  (IF b \in S THEN 1 ELSE 0) + (IF (b + 1) \in S THEN 2 ELSE 0)
  + (IF (b + 2) \in S THEN 4 ELSE 0) + (IF (b + 3) \in S THEN 8 ELSE 0)
  + (IF (b + 4) \in S THEN 16 ELSE 0) + (IF (b + 5) \in S THEN 32 ELSE 0)
  + (IF (b + 6) \in S THEN 64 ELSE 0) + (IF (b + 7) \in S THEN 128 ELSE 0)

\* the bits of a number below 256, placed from bit b on
BitsOf(n, b) == {b + j : j \in {k \in 0..7 : (n \div (2^k)) % 2 = 1}}

\* the pairs of a bit of x and a bit of y that contribute 2^t to x * y
Pairs(x, y, t) == Cardinality({i \in x : (t - i) \in y})

\* the contributions to the eight bits of x * y from bit b on
ColumnByte(x, y, b) ==
  Pairs(x, y, b) + 2 * Pairs(x, y, b + 1) + 4 * Pairs(x, y, b + 2)
  + 8 * Pairs(x, y, b + 3) + 16 * Pairs(x, y, b + 4)
  + 32 * Pairs(x, y, b + 5) + 64 * Pairs(x, y, b + 6)
  + 128 * Pairs(x, y, b + 7)

\* x * y of natural numbers, eight bits at a time with the carry
RECURSIVE TimesFrom(_, _, _, _, _)
TimesFrom(x, y, b, carry, top) ==
  IF b > top THEN {}
  ELSE LET sum == ColumnByte(x, y, b) + carry
       IN BitsOf(sum % 256, b)
          \cup TimesFrom(x, y, b + 8, sum \div 256, top)

Times(x, y) ==
  IF x = {} \/ y = {} THEN {}
  ELSE TimesFrom(x, y, 0, 0, Max(x) + Max(y) + 1)

\* x - y of natural numbers below 2^(top + 1), eight bits at a time with the
\* borrow; the element -1 marks a result below zero
RECURSIVE MinusFrom(_, _, _, _, _)
MinusFrom(x, y, b, borrow, top) ==
  IF b > top THEN (IF borrow = 1 THEN {-1} ELSE {})
  ELSE LET difference == Byte(x, b) - Byte(y, b) - borrow
       IN BitsOf(difference % 256, b)
          \cup MinusFrom(x, y, b + 8, IF difference < 0 THEN 1 ELSE 0, top)

\* the quotient bits of n / d from bit i downwards: bit i is set when d
\* shifted by i can be taken from what is left of n
RECURSIVE QuotientFrom(_, _, _, _)
QuotientFrom(n, d, i, top) ==
  IF i < 0 THEN {}
  ELSE LET left == MinusFrom(n, {j + i : j \in d}, 0, 0, top)
       IN IF -1 \in left THEN QuotientFrom(n, d, i - 1, top)
          ELSE {i} \cup QuotientFrom(left, d, i - 1, top)

\* n / d of natural numbers, d # 0
Quotient(n, d) ==
  IF n = {} THEN {} ELSE QuotientFrom(n, d, Max(n) - Max(d), Max(n))

\* the type an operand of unsigned T has in an expression: int when int holds
\* every value of T (integral promotion), else T or unsigned int itself
Promoted(p, T) ==
  IF p.sizes[T] < p.sizes["int"]
  THEN [width |-> p.sizes["int"], signed |-> TRUE]
  ELSE [width |-> p.sizes[T], signed |-> FALSE]

\* kLHS * kRHS: modulo 2^width in an unsigned type, undefined when it is not
\* representable in int
Multiply(p, T, kLHS, kRHS) ==
  LET exact == Times(kLHS, kRHS)
      type == Promoted(p, T)
  IN IF type.signed
     THEN [value |-> exact, undefined |-> exact \ (0..(type.width - 2)) # {}]
     ELSE [value |-> exact \cap (0..(type.width - 1)), undefined |-> FALSE]

\* kRHS != 0 && (static_cast<T>(kLHS * kRHS) / kRHS) != kLHS, given the product
OverflowTest(p, T, kLHS, kRHS, product) ==
  kRHS # {} /\ Quotient(Convert(p, product, T), kRHS) # kLHS

\* MultiplicationOverflow(kLHS, kRHS) on run-time values: the results the
\* call can have (either one when the multiplication is undefined)
MultiplicationOverflow(p, T, kLHS, kRHS) ==
  LET product == Multiply(p, T, kLHS, kRHS)
  IN IF kRHS # {} /\ product.undefined THEN BOOLEAN
     ELSE {OverflowTest(p, T, kLHS, kRHS, product.value)}

\* MultiplicationOverflow<T, kLHS_, kRHS_>(): the call as a template argument
\* of Bool, which an undefined multiplication stops from being a constant
MultiplicationOverflowStatic(p, T, kLHS, kRHS) ==
  LET product == Multiply(p, T, kLHS, kRHS)
  IN IF kRHS # {} /\ product.undefined THEN BuildFailure
     ELSE Returned(OverflowTest(p, T, kLHS, kRHS, product.value))

\* OverflowMult<T, kLHS, kRHS>::value
OverflowMult(p, T, kLHS, kRHS) ==
  LET product == Multiply(p, T, kLHS, kRHS)
  IN IF kRHS # {} /\ product.undefined THEN BuildFailure
     ELSE Returned(OverflowTest(p, T, kLHS, kRHS, product.value))

\* faulty variant: the step multiplies without the static assertion
PowerStepUnchecked(p, T, value_, inner) ==
  IF inner.halted THEN BuildFailure
  ELSE Returned(Convert(p, Multiply(p, T, value_, inner.value).value, T))

\* one step of detail::Power<T, value_, power_>(): the static assertion on
\* the overflow test, then value_ * Power<T, value_, power_ - 1>() as a T
PowerStep(p, T, value_, inner) ==
  IF inner.halted THEN BuildFailure
  ELSE LET overflow == MultiplicationOverflowStatic(p, T, value_, inner.value)
           product == Multiply(p, T, value_, inner.value)
       IN IF overflow.halted \/ overflow.value \/ product.undefined
          THEN BuildFailure
          ELSE Returned(Convert(p, product.value, T))

\* bits::Power<T, value_, power_>(): 1 for power_ == 0, value_ for power_ == 1
RECURSIVE Power(_, _, _, _)
Power(p, T, value_, power_) ==
  IF power_ = 0 THEN Returned({0})
  ELSE IF power_ = 1 THEN Returned(value_)
  ELSE PowerStep(p, T, value_, Power(p, T, value_, power_ - 1))

\* one step of mpl::detail::Power<T, kBase, kPower>: the product is a template
\* argument of type T, which a product in int that T cannot hold is not
\* converted to, and the static assertion on OverflowMult
MplPowerStep(p, T, kBase, inner) ==
  IF inner.halted THEN BuildFailure
  ELSE LET overflow == OverflowMult(p, T, kBase, inner.value)
           product == Multiply(p, T, kBase, inner.value)
           narrowing == /\ Promoted(p, T).signed
                        /\ product.value \ (0..(p.sizes[T] - 1)) # {}
       IN IF overflow.halted \/ overflow.value \/ product.undefined
             \/ narrowing
          THEN BuildFailure
          ELSE Returned(Convert(p, product.value, T))

\* mpl::Power<T, kBase, kPower>::value: 1 for kPower == 0
RECURSIVE MplPower(_, _, _, _)
MplPower(p, T, kBase, kPower) ==
  IF kPower = 0 THEN Returned({0})
  ELSE MplPowerStep(p, T, kBase, MplPower(p, T, kBase, kPower - 1))

(***************************************************************************)
(* The arithmetic helpers as a state machine: one call on one platform.    *)
(***************************************************************************)
\* the operands of width w: the small numbers, the numbers around the
\* square root of 2^w, and the largest numbers
Operands(w) ==
  LET h == w \div 2
  IN {NatBV(n) : n \in 0..SmallOperand}
     \cup {0..(h - 1), {h}, {h, 0}}
     \cup {0..(w - 1), 1..(w - 1), {w - 1}, {w - 1, 0}}

\* the exponents given to Power
Exponents == 0..MaxPower

OverflowOps == {"MultiplicationOverflow", "MultiplicationOverflow<>",
                "OverflowMult"}

PowerOps == {"Power", "mpl::Power"}

ArithCalls(p) ==
  UNION {{[op |-> op, T |-> T, kLHS |-> a, kRHS |-> b] :
            op \in OverflowOps,
            a \in Operands(p.sizes[T]), b \in Operands(p.sizes[T])}
         \cup {[op |-> op, T |-> T, value |-> a, power |-> e] :
                 op \in PowerOps,
                 a \in Operands(p.sizes[T]), e \in Exponents} :
           T \in IntegralTypes}

InitArith ==
  /\ platform \in BitsPlatforms
  /\ call \in ArithCalls(platform)
  /\ pc = "ready"
  /\ result = NoResult
  /\ location = {}

DoMultiplicationOverflow ==
  /\ call.op = "MultiplicationOverflow"
  /\ \E outcome \in
         MultiplicationOverflow(platform, call.T, call.kLHS, call.kRHS) :
       Resolve("MultiplicationOverflow", Returned(outcome))

DoMultiplicationOverflowStatic ==
  /\ call.op = "MultiplicationOverflow<>"
  /\ Resolve("MultiplicationOverflow<>",
       MultiplicationOverflowStatic(platform, call.T, call.kLHS, call.kRHS))

DoOverflowMult ==
  /\ call.op = "OverflowMult"
  /\ Resolve("OverflowMult",
       OverflowMult(platform, call.T, call.kLHS, call.kRHS))

DoPower ==
  /\ call.op = "Power"
  /\ Resolve("Power", Power(platform, call.T, call.value, call.power))

DoMplPower ==
  /\ call.op = "mpl::Power"
  /\ Resolve("mpl::Power",
       MplPower(platform, call.T, call.value, call.power))

NextArith ==
  \/ DoMultiplicationOverflow
  \/ DoMultiplicationOverflowStatic
  \/ DoOverflowMult
  \/ DoPower
  \/ DoMplPower

SpecArith == InitArith /\ [][NextArith]_vars

(***************************************************************************)
(* bits.h: masks and the field operations on a memory location of type T.  *)
(* The operators &, | and ~ work on the promoted operands; a store to the  *)
(* location or a return as T keeps the bits of T.                          *)
(***************************************************************************)
\* static_cast<T>(1u) << index_: undefined for a shift by the width of the
\* promoted type or more
ShiftLeftOne(p, T, index_) ==
  [value |-> {index_}, undefined |-> index_ >= Promoted(p, T).width]

\* faulty variant: the indexes after the first one are not looked at
MaskOfFirst(p, T, indexes) ==
  IF indexes = <<>> THEN {}
  ELSE Convert(p, ShiftLeftOne(p, T, Head(indexes)).value, T)

\* detail::Mask<T>(index_, rest_...): 0 for no index, else
\* (static_cast<T>(1u) << index_) | Mask<T>(rest_...), returned as T
RECURSIVE Mask(_, _, _)
Mask(p, T, indexes) ==
  IF indexes = <<>> THEN {}
  ELSE Convert(p, ShiftLeftOne(p, T, Head(indexes)).value
                    \cup Mask(p, T, Tail(indexes)), T)

\* detail::Mask<T, index_, rest_...>(): the static assertion on index_, then
\* the mask as a template argument, which an undefined shift is not
MaskStatic(p, T, indexes) ==
  IF indexes = <<>> THEN Returned({})
  ELSE IF ~(Head(indexes) < p.sizes[T]) THEN BuildFailure
  ELSE IF \E i \in 1..Len(indexes) : ShiftLeftOne(p, T, indexes[i]).undefined
  THEN BuildFailure
  ELSE Returned(Mask(p, T, indexes))

\* ~x in the promoted type of T
Complement(p, T, x) == (0..(Promoted(p, T).width - 1)) \ x

\* detail::get(mask, data): *data & mask
get(p, T, mask, data) == Convert(p, data \cap mask, T)

\* detail::set(mask, data): *data |= mask
set(p, T, mask, data) == Convert(p, data \cup mask, T)

\* faulty variant: the location is cleared as a whole
clearAll(p, T, mask, data) == {}

\* detail::clear(mask, data): *data &= ~mask
clear(p, T, mask, data) == Convert(p, data \cap Complement(p, T, mask), T)

\* faulty variant: the value is stored without the mask
assignUnmasked(p, T, mask, value, data) == Convert(p, value, T)

\* detail::assign(mask, value, data):
\* *data = (value & mask) | (*data & ~mask)
assign(p, T, mask, value, data) ==
  Convert(p, (value \cap mask) \cup (data \cap Complement(p, T, mask)), T)

\* the EnableIf conditions of the five overloads of
\* detail::assign<T, mask_, value_>(data)
AssignEnabled(p, T, mask_, value_, strategy) ==
  LET empty == mask_ = {}
      full == mask_ = Complement(p, T, {})
  IN CASE strategy = "empty" -> empty
       [] strategy = "full" -> full
       [] strategy = "or" -> ~empty /\ ~full /\ (mask_ \cap value_) = mask_
       [] strategy = "and" -> ~empty /\ ~full /\ (mask_ \cap value_) = {}
       [] strategy = "merge" ->
            /\ ~empty /\ ~full
            /\ (mask_ \cap value_) # {} /\ (mask_ \cap value_) # mask_

Strategies == {"empty", "full", "or", "and", "merge"}

\* faulty variant: the or strategy stores the mask alone
AssignByOverwrite(p, T, mask_, value_, data, strategy) ==
  CASE strategy = "empty" -> data
    [] strategy = "full" -> Convert(p, value_, T)
    [] strategy = "or" -> Convert(p, mask_, T)
    [] strategy = "and" -> Convert(p, data \cap Complement(p, T, mask_), T)
    [] strategy = "merge" ->
         Convert(p, (value_ \cap mask_)
                      \cup (data \cap Complement(p, T, mask_)), T)

\* the body of each overload: nothing, *data = value_, *data |= mask_,
\* *data &= ~mask_, *data = masked_value::value | (*data & ~mask_)
AssignBy(p, T, mask_, value_, data, strategy) ==
  CASE strategy = "empty" -> data
    [] strategy = "full" -> Convert(p, value_, T)
    [] strategy = "or" -> Convert(p, data \cup mask_, T)
    [] strategy = "and" -> Convert(p, data \cap Complement(p, T, mask_), T)
    [] strategy = "merge" ->
         Convert(p, (value_ \cap mask_)
                      \cup (data \cap Complement(p, T, mask_)), T)

\* detail::assign<T, mask_, value_>(data): the location after the call and
\* the overload that ran, or the failure of the overload resolution
assignStatic(p, T, mask_, value_, data) ==
  LET viable == {k \in Strategies : AssignEnabled(p, T, mask_, value_, k)}
  IN IF Cardinality(viable) # 1 THEN [data |-> data, outcome |-> BuildFailure]
     ELSE LET strategy == CHOOSE k \in viable : TRUE
          IN [data |-> AssignBy(p, T, mask_, value_, data, strategy),
              outcome |-> ReturnedBy(strategy, {})]

(***************************************************************************)
(* The masks and the field operations as a state machine: a mask is built, *)
(* or one operation is applied to a location; after an assign the field    *)
(* can be read back.                                                       *)
(***************************************************************************)
\* the masks, values and contents of width w: nothing, everything, the two
\* ends, the two halves, all but the lowest bit, and every second bit
Words(w) ==
  LET h == w \div 2
  IN {{}, 0..(w - 1), {0}, {w - 1}, 0..(h - 1), h..(w - 1), 1..(w - 1),
      {i \in 0..(w - 1) : i % 2 = 0}}

\* bit indexes within a type of width w, and just beyond it
IndexesInRange(w) == {0, 1, w - 2, w - 1}

IndexesBeyond(w) == {w, w + 1}

\* the index lists of at most MaxIndexes indexes over a set of indexes
IndexLists(indexes) == UNION {[1..n -> indexes] : n \in 0..MaxIndexes}

\* the calls of Mask: on run-time indexes, which the caller keeps within the
\* type, and on template arguments, which can be any
MaskCalls(p) ==
  UNION {{[op |-> "Mask", T |-> T, indexes |-> l] :
            l \in IndexLists(IndexesInRange(p.sizes[T]))}
         \cup {[op |-> "Mask<>", T |-> T, indexes |-> l] :
                 l \in IndexLists(IndexesInRange(p.sizes[T])
                                   \cup IndexesBeyond(p.sizes[T]))} :
           T \in IntegralTypes}

\* the calls of the field operations on a location holding old
FieldCalls(p) ==
  UNION {{[op |-> op, T |-> T, mask |-> m, value |-> v, old |-> o] :
            op \in {"assign", "assign<>"}, m \in Words(p.sizes[T]),
            v \in Words(p.sizes[T]), o \in Words(p.sizes[T])}
         \cup {[op |-> op, T |-> T, mask |-> m, old |-> o] :
                 op \in {"get", "set", "clear"}, m \in Words(p.sizes[T]),
                 o \in Words(p.sizes[T])} :
           T \in IntegralTypes}

InitField ==
  /\ platform \in BitsPlatforms
  /\ call \in MaskCalls(platform) \cup FieldCalls(platform)
  /\ pc = "ready"
  /\ result = NoResult
  /\ location = IF call.op \in {"Mask", "Mask<>"} THEN {} ELSE call.old

\* Mask<T>(indexes_...)
DoMask ==
  /\ call.op = "Mask"
  /\ Resolve("Mask", Returned(Mask(platform, call.T, call.indexes)))

\* Mask<T, indexes_...>()
DoMaskStatic ==
  /\ call.op = "Mask<>"
  /\ Resolve("Mask<>", MaskStatic(platform, call.T, call.indexes))

\* get<T>(mask, data)
DoGet ==
  /\ call.op = "get"
  /\ Resolve("get", Returned(get(platform, call.T, call.mask, location)))

\* an operation that writes the location and returns nothing
Write(op, data) ==
  /\ pc = "ready"
  /\ call.op = op
  /\ pc' = "done"
  /\ location' = data
  /\ result' = Returned({})
  /\ UNCHANGED <<platform, call>>

\* set<T>(mask, data)
DoSet ==
  /\ call.op = "set"
  /\ Write("set", set(platform, call.T, call.mask, location))

\* clear<T>(mask, data)
DoClear ==
  /\ call.op = "clear"
  /\ Write("clear", clear(platform, call.T, call.mask, location))

\* assign<T>(mask, value, data)
DoAssign ==
  /\ call.op = "assign"
  /\ Write("assign",
       assign(platform, call.T, call.mask, call.value, location))

\* get<T>(mask, data) on the location an assign with the same mask has written
DoGetAssigned ==
  /\ pc = "done"
  /\ call.op = "assign"
  /\ pc' = "read"
  /\ result' = Returned(get(platform, call.T, call.mask, location))
  /\ UNCHANGED <<platform, call, location>>

\* assign<T, mask_, value_>(data)
DoAssignStatic ==
  /\ pc = "ready"
  /\ call.op = "assign<>"
  /\ LET after ==
           assignStatic(platform, call.T, call.mask, call.value, location)
     IN /\ location' = after.data
        /\ result' = after.outcome
  /\ pc' = "done"
  /\ UNCHANGED <<platform, call>>

NextField ==
  \/ DoMask
  \/ DoMaskStatic
  \/ DoGet
  \/ DoSet
  \/ DoClear
  \/ DoAssign
  \/ DoGetAssigned
  \/ DoAssignStatic

SpecField == InitField /\ [][NextField]_vars

(***************************************************************************)
(* mpl.h, the field values built at build time: the lowest run of a mask,  *)
(* a value checked against its mask, a logical value spread over the set   *)
(* bits of a mask, and several values joined in one transaction.  The      *)
(* types are the unsigned ones; a template argument of type Type is a      *)
(* converted constant expression, so that a value of the promoted type     *)
(* that Type cannot hold halts the build.                                  *)
(***************************************************************************)
\* value >> kBits
ShiftRight(value, kBits) == {i - kBits : i \in {j \in value : j >= kBits}}

\* value << kBits in the promoted type of T
ShiftLeft(p, T, value, kBits) ==
  {i + kBits : i \in value} \cap (0..(Promoted(p, T).width - 1))

\* a constant of the promoted type of T given as a template argument of type
\* T: whether the conversion narrows
Narrows(p, T, value) == value \ (0..(p.sizes[T] - 1)) # {}

\* LowBitMask<T, kBits>: (static_cast<T>(1) << kBits) - 1 below the width of
\* T, ~static_cast<T>(0) as a constant of type T at the width, and no build
\* beyond it
LowBitMask(p, T, kBits) ==
  IF kBits > p.sizes[T] THEN BuildFailure
  ELSE IF kBits = p.sizes[T]
  THEN IF Narrows(p, T, Complement(p, T, {})) THEN BuildFailure
       ELSE Returned(Complement(p, T, {}))
  ELSE Returned(0..(kBits - 1))

\* mpl::detail::BitScanForward<Type, value_> for value_ == 0: the static
\* assertion of that specialisation fails
MplBitScanForwardHalts(value_) == value_ = {}

\* mpl::detail::BitScanForward<Type, value_>::value: 0 for an odd value_,
\* one more than the scan of value_ >> 1 for an even one
RECURSIVE MplBitScanForward(_)
MplBitScanForward(value_) ==
  IF value_ = {} \/ 0 \in value_ THEN 0
  ELSE 1 + MplBitScanForward(ShiftRightOne(value_))

\* mpl::detail::LowestBitRun<Type, value>: offset is the scan of value and
\* length the scan of ~(value >> offset), a template argument of type Type;
\* both are 0 for value 0
LowestBitRun(p, T, value) ==
  IF value = {} THEN [offset |-> 0, length |-> 0, halted |-> FALSE]
  ELSE LET offset == MplBitScanForward(value)
           inverted == Complement(p, T, ShiftRight(value, offset))
       IN IF Narrows(p, T, inverted) \/ MplBitScanForwardHalts(inverted)
          THEN [offset |-> offset, length |-> 0, halted |-> TRUE]
          ELSE [offset |-> offset, length |-> MplBitScanForward(inverted),
                halted |-> FALSE]

\* value_ - 1 for a value_ that is not 0: the lowest set bit is cleared and
\* the bits below it are set
MinusOne(value_) ==
  LET low == CHOOSE i \in value_ : \A j \in value_ : i <= j
  IN (value_ \ {low}) \cup (0..(low - 1))

\* mpl::IsPowerOfTwo<T, value_>: value_ && !(value_ & (value_ - 1))
IsPowerOfTwo(value_) == value_ # {} /\ (value_ \cap MinusOne(value_)) = {}

\* the specialisations of detail::BitValue: the empty mask, the mask whose
\* complement is 0, one mask bit with bits set, one mask bit with bits clear
Variants == {"empty", "full", "set", "clear"}

\* faulty variant: one mask bit selects the setting specialisation whatever
\* the bits are
BitValueEnabledWithoutBits(p, T, mask_, bits_, variant) ==
  CASE variant = "empty" -> mask_ = {}
    [] variant = "full" -> Complement(p, T, mask_) = {}
    [] variant = "set" -> IsPowerOfTwo(mask_)
    [] variant = "clear" -> IsPowerOfTwo(mask_) /\ bits_ = {}

\* whether a specialisation of detail::BitValue matches <Type, mask_, bits_>
BitValueEnabled(p, T, mask_, bits_, variant) ==
  CASE variant = "empty" -> mask_ = {}
    [] variant = "full" -> Complement(p, T, mask_) = {}
    [] variant = "set" -> IsPowerOfTwo(mask_) /\ bits_ # {}
    [] variant = "clear" -> IsPowerOfTwo(mask_) /\ bits_ = {}

\* the field value that could not be built, with the assertion or the rule
\* of the language that halted the build
Rejected(message) == [T |-> "none", mask |-> {}, bits |-> {},
                      variant |-> "none", halted |-> TRUE,
                      message |-> message]

\* the messages of the static assertions of BitValueBase and BitTransaction
Unreferenced == "Unreferenced set bits in value."

Overlapping ==
  "Masks are not allowed to refer to the same bits; no overlapping."

\* faulty variant: the bits are not checked against the mask
BitValueUnchecked(p, T, mask_, bits_) ==
  LET matching ==
        {k \in Variants : BitValueEnabled(p, T, mask_, bits_, k)}
  IN IF Narrows(p, T, mask_) \/ Narrows(p, T, bits_)
     THEN Rejected("narrowing conversion")
     ELSE IF Cardinality(matching) > 1
     THEN Rejected("ambiguous partial specialisation")
     ELSE [T |-> T, mask |-> mask_, bits |-> bits_,
           variant |-> IF matching = {} THEN "merge"
                       ELSE CHOOSE k \in matching : TRUE,
           halted |-> FALSE]

\* BitValue<Type, mask_, bits_>: no build when bits_ has a bit outside mask_
\* (BitValueBase); the specialisation that matches, else the primary
\* template, which merges
BitValue(p, T, mask_, bits_) ==
  LET matching ==
        {k \in Variants : BitValueEnabled(p, T, mask_, bits_, k)}
  IN IF Narrows(p, T, mask_) \/ Narrows(p, T, bits_)
     THEN Rejected("narrowing conversion")
     ELSE IF (bits_ \cap mask_) # bits_
     THEN Rejected(Unreferenced)
     ELSE IF Cardinality(matching) > 1
     THEN Rejected("ambiguous partial specialisation")
     ELSE [T |-> T, mask |-> mask_, bits |-> bits_,
           variant |-> IF matching = {} THEN "merge"
                       ELSE CHOOSE k \in matching : TRUE,
           halted |-> FALSE]

\* faulty variant: the specialisation for one mask bit stores the mask
BitValueSetOverwrite(p, field, data) ==
  CASE field.variant = "empty" -> data
    [] field.variant = "full" -> field.bits
    [] field.variant = "set" -> Convert(p, field.mask, field.T)
    [] field.variant = "clear" ->
         Convert(p, data \cap Complement(p, field.T, field.mask), field.T)
    [] field.variant = "merge" ->
         Convert(p, field.bits
                      \cup (data \cap Complement(p, field.T, field.mask)),
                 field.T)

\* BitValue<...>::set(data): nothing, *data = bits_, *data |= mask_,
\* *data &= ~mask_, *data = bits_ | (*data & ~mask_)
BitValueSet(p, field, data) ==
  CASE field.variant = "empty" -> data
    [] field.variant = "full" -> field.bits
    [] field.variant = "set" -> Convert(p, data \cup field.mask, field.T)
    [] field.variant = "clear" ->
         Convert(p, data \cap Complement(p, field.T, field.mask), field.T)
    [] field.variant = "merge" ->
         Convert(p, field.bits
                      \cup (data \cap Complement(p, field.T, field.mask)),
                 field.T)

\* BitField<Type, mask_, value_>: the low bits of value_ fill the lowest run
\* of mask_, and the rest of value_ is spread over the rest of mask_; for
\* mask_ 0 the value left over must be 0
RECURSIVE BitField(_, _, _, _)
BitField(p, T, mask_, value_) ==
  IF mask_ = {}
  THEN IF value_ # {} THEN Rejected("Extra unused set bits in value.")
       ELSE BitValue(p, T, {}, {})
  ELSE LET run == LowestBitRun(p, T, mask_)
       IN IF run.halted THEN Rejected("LowestBitRun")
          ELSE LET low == LowBitMask(p, T, run.length)
                   rest ==
                     BitField(p, T,
                       mask_ \cap Complement(p, T,
                                   ShiftLeft(p, T, low.value, run.offset)),
                       ShiftRight(value_, run.length))
               IN IF low.halted THEN Rejected("LowBitMask")
                  ELSE IF rest.halted THEN rest
                  ELSE BitValue(p, T, mask_,
                         ShiftLeft(p, T, value_ \cap low.value, run.offset)
                           \cup rest.bits)

\* faulty variant: a field is checked against the next field only
RECURSIVE BitTransactionAdjacent(_, _)
BitTransactionAdjacent(p, fields) ==
  LET first == Head(fields)
  IN IF Len(fields) = 1
     THEN BitValue(p, first.T, first.mask, first.bits)
     ELSE LET rest == BitTransactionAdjacent(p, Tail(fields))
          IN IF rest.halted THEN rest
             ELSE IF first.T # rest.T
             THEN Rejected("All mask types must be the same.")
             ELSE IF (first.mask \cap fields[2].mask) # {}
             THEN Rejected(Overlapping)
             ELSE BitValue(p, first.T, first.mask \cup rest.mask,
                           first.bits \cup rest.bits)

\* faulty variant: the bits of the other fields are left out
RECURSIVE BitTransactionFirstBits(_, _)
BitTransactionFirstBits(p, fields) ==
  LET first == Head(fields)
  IN IF Len(fields) = 1
     THEN BitValue(p, first.T, first.mask, first.bits)
     ELSE LET rest == BitTransactionFirstBits(p, Tail(fields))
          IN IF rest.halted THEN rest
             ELSE IF first.T # rest.T
             THEN Rejected("All mask types must be the same.")
             ELSE IF (first.mask \cap rest.mask) # {}
             THEN Rejected(Overlapping)
             ELSE BitValue(p, first.T, first.mask \cup rest.mask,
                           first.bits)

\* BitTransaction<Mask, Masks...>: the first field joined with the
\* transaction of the others, which must be of its type and share no mask
\* bit with it; BitTransaction<Mask> is the field itself
RECURSIVE BitTransaction(_, _)
BitTransaction(p, fields) ==
  LET first == Head(fields)
  IN IF Len(fields) = 1
     THEN BitValue(p, first.T, first.mask, first.bits)
     ELSE LET rest == BitTransaction(p, Tail(fields))
          IN IF rest.halted THEN rest
             ELSE IF first.T # rest.T
             THEN Rejected("All mask types must be the same.")
             ELSE IF (first.mask \cap rest.mask) # {}
             THEN Rejected(Overlapping)
             ELSE BitValue(p, first.T, first.mask \cup rest.mask,
                           first.bits \cup rest.bits)


(***************************************************************************)
(* The field values as a state machine: a run is measured, a field value   *)
(* or a transaction is built and written to a location, the fields of a    *)
(* transaction are written one by one in any order, or a value is assigned *)
(* under a build-time mask.                                                *)
(***************************************************************************)
\* the masks of fields of width w: nothing, everything, the two ends, the
\* two halves, all but the lowest bit, and masks of two and of three runs
FieldMasks(w) ==
  LET h == w \div 2
  IN {{}, 0..(w - 1), {0}, {w - 1}, 0..(h - 1), h..(w - 1), 1..(w - 1),
      {0, w - 1}, (1..2) \cup (h..(w - 1)), {1, 2, h, w - 2, w - 1}}

\* the logical values of type T for a mask: the small ones, and around the
\* largest one the mask has room for
LogicalValues(p, T, mask) ==
  LET room == Cardinality(mask)
      values == (SUBSET (0..(PatternBits - 1)))
                  \cup {0..(room - 1), {room}, 0..room}
                  \cup (IF room > 0 THEN {{room - 1}} ELSE {})
  IN {v \in values : ~Narrows(p, T, v)}

\* the fields of a type of width w that a transaction is built from: one bit
\* set, one bit cleared, two runs in the middle, and a run over the lowest
\* bits of the others
OwnFields(p, T) ==
  LET w == p.sizes[T]
      h == w \div 2
  IN {BitValue(p, T, {0}, {0}), BitValue(p, T, {w - 1}, {}),
      BitValue(p, T, 1..(h - 1), {1}),
      BitValue(p, T, h..(w - 2), h..(w - 2)),
      BitValue(p, T, 0..1, {1})}

\* a field of another type
ForeignField(p, T) ==
  BitValue(p, IF T = "long" THEN "int" ELSE "long", {2}, {2})

\* the types of the locations transactions are written to
TransactionTypes == {"char", "int", "long long"}

\* the contents of such a location: every second bit, from bit 0 or bit 1
Contents(w) == {{i \in 0..(w - 1) : i % 2 = b} : b \in 0..1}

\* the lists of one to MaxFields fields
FieldLists(fields) == UNION {[1..n -> fields] : n \in 1..MaxFields}

\* the calls: a run, a field, a field value written to a location holding
\* old, a transaction written to such a location at once or field by field
\* (applied holds the fields written so far), and an assign under a
\* build-time mask
ValueCalls(p) ==
  UNION {{[op |-> "LowestBitRun", T |-> T, mask |-> m] :
            m \in Values(p.sizes[T])}
         \cup UNION {{[op |-> "BitField", T |-> T, mask |-> m, value |-> v] :
                        v \in LogicalValues(p, T, m)} :
                       m \in FieldMasks(p.sizes[T])}
         \cup {[op |-> "BitValue", T |-> T, mask |-> m, bits |-> b,
                 old |-> o] :
                 m \in Words(p.sizes[T]), b \in Words(p.sizes[T]),
                 o \in Contents(p.sizes[T])}
         \cup {[op |-> "assign<>", T |-> T, mask |-> m, value |-> v,
                 old |-> o] :
                 m \in Words(p.sizes[T]), v \in Words(p.sizes[T]),
                 o \in Contents(p.sizes[T])} :
           T \in IntegralTypes}
    \cup UNION {{[op |-> "BitTransaction", T |-> T, fields |-> l,
                   old |-> o, applied |-> {}] :
                   l \in FieldLists(OwnFields(p, T)
                                      \cup {ForeignField(p, T)}),
                   o \in Contents(p.sizes[T])} :
                  T \in TransactionTypes}

InitValue ==
  /\ platform \in BitsPlatforms
  /\ call \in ValueCalls(platform)
  /\ pc = "ready"
  /\ result = NoResult
  /\ location = IF call.op \in {"LowestBitRun", "BitField"} THEN {}
                ELSE call.old

\* LowestBitRun<Type, value>
DoLowestBitRun ==
  /\ call.op = "LowestBitRun"
  /\ Resolve("LowestBitRun", LowestBitRun(platform, call.T, call.mask))

\* BitField<Type, mask_, value_>
DoBitField ==
  /\ call.op = "BitField"
  /\ Resolve("BitField", BitField(platform, call.T, call.mask, call.value))

\* BitValue<Type, mask_, bits_>
DoBitValue ==
  /\ call.op = "BitValue"
  /\ Resolve("BitValue", BitValue(platform, call.T, call.mask, call.bits))

\* BitTransaction<Mask, Masks...>
DoBitTransaction ==
  /\ call.op = "BitTransaction"
  /\ call.applied = {}
  /\ Resolve("BitTransaction", BitTransaction(platform, call.fields))

\* set(data) of the field value or the transaction that has been built, on
\* a location of its type
DoBitValueSet ==
  /\ pc = "done"
  /\ call.op \in {"BitValue", "BitTransaction"}
  /\ ~result.halted
  /\ result.T = call.T
  /\ pc' = "written"
  /\ location' = BitValueSet(platform, result, location)
  /\ UNCHANGED <<platform, call, result>>

\* set(data) of one field of the list that has not been written yet, on a
\* location of its type: the writes that a transaction that builds stands
\* for
DoFieldSet ==
  /\ pc \in {"ready", "applying"}
  /\ call.op = "BitTransaction"
  /\ ~BitTransaction(platform, call.fields).halted
  /\ BitTransaction(platform, call.fields).T = call.T
  /\ \E i \in (1..Len(call.fields)) \ call.applied :
       /\ location' = BitValueSet(platform, call.fields[i], location)
       /\ call' = [call EXCEPT !.applied = @ \cup {i}]
       /\ pc' = IF call.applied \cup {i} = 1..Len(call.fields)
                THEN "applied" ELSE "applying"
  /\ UNCHANGED <<platform, result>>

NextValue ==
  \/ DoLowestBitRun
  \/ DoBitField
  \/ DoBitValue
  \/ DoBitTransaction
  \/ DoBitValueSet
  \/ DoFieldSet
  \/ DoAssignStatic

SpecValue == InitValue /\ [][NextValue]_vars


(***************************************************************************)
(* Two threads that write fields of one location without synchronisation.  *)
(* set, clear and assign read *data, compute the new content and store it, *)
(* with no lock and no atomic operation: a thread loads the location in    *)
(* one step and stores in another, and the steps of the two threads        *)
(* interleave in every way.                                                *)
(***************************************************************************)
Threads == {1, 2}

\* the thread that is not t
Other(t) == CHOOSE u \in Threads : u # t

\* the writes of one thread under mask m
WritesUnder(w, m) ==
  {[op |-> "set", mask |-> m, value |-> {}],
   [op |-> "clear", mask |-> m, value |-> {}]}
    \cup {[op |-> "assign", mask |-> m, value |-> v] : v \in Contents(w)}

\* pairs of disjoint masks of width w: the two halves, the two ends, the
\* lowest bit and the rest, and one mask next to an empty one
DisjointMasks(w) ==
  LET h == w \div 2
  IN {<<0..(h - 1), h..(w - 1)>>, <<{0}, {w - 1}>>, <<{0}, 1..(w - 1)>>,
      <<h..(w - 1), 0..(h - 1)>>, <<1..(h - 1), {}>>}

\* the two writes, on a location of type T holding old
RaceCalls(p) ==
  UNION {UNION {{[T |-> T, old |-> o, writes |-> <<a, b>>] :
                   a \in WritesUnder(p.sizes[T], m[1]),
                   b \in WritesUnder(p.sizes[T], m[2]),
                   o \in Contents(p.sizes[T])} :
                  m \in DisjointMasks(p.sizes[T])} :
           T \in IntegralTypes}

\* nothing loaded, no store seen, and no store made yet
InitRace ==
  /\ platform \in BitsPlatforms
  /\ call \in RaceCalls(platform)
  /\ pc = [t \in Threads |-> "load"]
  /\ result = [loaded |-> [t \in Threads |-> {}],
               after |-> [t \in Threads |-> FALSE],
               last |-> 0]
  /\ location = call.old

\* faulty variant: the write is made on the content the location has when
\* the store is made
StoredAtomically(p, T, write, loaded, current) ==
  CASE write.op = "set" -> set(p, T, write.mask, current)
    [] write.op = "clear" -> clear(p, T, write.mask, current)
    [] write.op = "assign" ->
         assign(p, T, write.mask, write.value, current)

\* the content a write stores: *data | mask, *data & ~mask or
\* (value & mask) | (*data & ~mask), with the *data that was loaded
Stored(p, T, write, loaded, current) ==
  CASE write.op = "set" -> set(p, T, write.mask, loaded)
    [] write.op = "clear" -> clear(p, T, write.mask, loaded)
    [] write.op = "assign" ->
         assign(p, T, write.mask, write.value, loaded)

\* thread t reads *data; after tells whether the other thread had stored
Load(t) ==
  /\ pc[t] = "load"
  /\ pc' = [pc EXCEPT ![t] = "store"]
  /\ result' = [result EXCEPT !.loaded[t] = location,
                              !.after[t] = (pc[Other(t)] = "done")]
  /\ UNCHANGED <<platform, call, location>>

\* thread t stores what it has computed from the content it loaded
Store(t) ==
  /\ pc[t] = "store"
  /\ pc' = [pc EXCEPT ![t] = "done"]
  /\ location' = Stored(platform, call.T, call.writes[t],
                        result.loaded[t], location)
  /\ result' = [result EXCEPT !.last = t]
  /\ UNCHANGED <<platform, call>>

NextRace == \E t \in Threads : Load(t) \/ Store(t)

SpecRace == InitRace /\ [][NextRace]_vars


(***************************************************************************)
(* bits.h, the forms with the mask as a template argument: get<T, mask_>,  *)
(* set<T, mask_>, clear<T, mask_> and assign<T, mask_>(value, data), which *)
(* BitMask<T, mask_> forwards to.                                          *)
(***************************************************************************)
\* the overloads of get<T, mask_>(data) and of assign<T, mask_>(value, data)
MaskCases == {"empty", "full", "other"}

\* the EnableIf conditions of these overloads
MaskEnabled(p, T, mask_, case) ==
  LET empty == mask_ = {}
      full == mask_ = Complement(p, T, {})
  IN CASE case = "empty" -> empty
       [] case = "full" -> full
       [] case = "other" -> ~empty /\ ~full

\* detail::get<T, mask_>(data): 0 for the empty mask, *data for the full
\* mask, else get<T>(mask_, data)
getStatic(p, T, mask_, data) ==
  LET viable == {k \in MaskCases : MaskEnabled(p, T, mask_, k)}
  IN IF Cardinality(viable) # 1 THEN BuildFailure
     ELSE LET case == CHOOSE k \in viable : TRUE
          IN ReturnedBy(case,
               CASE case = "empty" -> {}
                 [] case = "full" -> Convert(p, data, T)
                 [] case = "other" -> get(p, T, mask_, data))

\* detail::set<T, mask_>(data): assign<T, mask_, ~static_cast<T>(0)>(data),
\* where ~static_cast<T>(0) is a template argument of type T
setStatic(p, T, mask_, data) ==
  IF Narrows(p, T, Complement(p, T, {}))
  THEN [data |-> data, outcome |-> BuildFailure]
  ELSE assignStatic(p, T, mask_, Complement(p, T, {}), data)

\* detail::clear<T, mask_>(data): assign<T, mask_, static_cast<T>(0)>(data)
clearStatic(p, T, mask_, data) == assignStatic(p, T, mask_, {}, data)

\* detail::assign<T, mask_>(value, data): nothing for the empty mask,
\* *data = value for the full mask, else assign<T>(mask_, value, data)
assignMasked(p, T, mask_, value, data) ==
  LET viable == {k \in MaskCases : MaskEnabled(p, T, mask_, k)}
  IN IF Cardinality(viable) # 1
     THEN [data |-> data, outcome |-> BuildFailure]
     ELSE LET case == CHOOSE k \in viable : TRUE
          IN [data |-> CASE case = "empty" -> data
                         [] case = "full" -> Convert(p, value, T)
                         [] case = "other" ->
                              assign(p, T, mask_, value, data),
              outcome |-> ReturnedBy(case, {})]

\* the calls of these forms on a location holding old
StaticMaskCalls(p) ==
  UNION {{[op |-> "assign<mask>", T |-> T, mask |-> m, value |-> v,
           old |-> o] :
            m \in Words(p.sizes[T]), v \in Words(p.sizes[T]),
            o \in Words(p.sizes[T])}
         \cup {[op |-> op, T |-> T, mask |-> m, old |-> o] :
                 op \in {"get<>", "set<>", "clear<>"},
                 m \in Words(p.sizes[T]), o \in Words(p.sizes[T])} :
           T \in IntegralTypes}

InitStatic ==
  /\ platform \in BitsPlatforms
  /\ call \in StaticMaskCalls(platform)
  /\ pc = "ready"
  /\ result = NoResult
  /\ location = call.old

\* get<T, mask_>(data)
DoGetStatic ==
  /\ call.op = "get<>"
  /\ Resolve("get<>", getStatic(platform, call.T, call.mask, location))

\* a form that writes the location unless the build halts
WriteStatic(op, after) ==
  /\ pc = "ready"
  /\ call.op = op
  /\ pc' = "done"
  /\ location' = after.data
  /\ result' = after.outcome
  /\ UNCHANGED <<platform, call>>

\* set<T, mask_>(data)
DoSetStatic ==
  /\ call.op = "set<>"
  /\ WriteStatic("set<>",
       setStatic(platform, call.T, call.mask, location))

\* clear<T, mask_>(data)
DoClearStatic ==
  /\ call.op = "clear<>"
  /\ WriteStatic("clear<>",
       clearStatic(platform, call.T, call.mask, location))

\* assign<T, mask_>(value, data)
DoAssignMasked ==
  /\ call.op = "assign<mask>"
  /\ WriteStatic("assign<mask>",
       assignMasked(platform, call.T, call.mask, call.value, location))

NextStatic ==
  \/ DoGetStatic
  \/ DoSetStatic
  \/ DoClearStatic
  \/ DoAssignMasked

SpecStatic == InitStatic /\ [][NextStatic]_vars


(***************************************************************************)
(* Properties of the bit primitives.                                       *)
(***************************************************************************)
Called(op) == pc = "done" /\ call.op = op

\* the index of the highest and of the lowest set bit of the operand
HighestSetBit == Max(call.value)

LowestSetBit == Min(call.value)

\* C8: ScanReverse(v) is the index of the highest set bit of v, and 0 for
\* v = 0, for every unsigned value of every width.
C8_ScanReverse ==
  Called("ScanReverse") =>
    /\ ~result.halted
    /\ result.value =
         NatBV(IF call.value = {} THEN 0 ELSE HighestSetBit)

\* C9: ScanForward(v) is the index of the lowest set bit of v, and 0 for
\* v = 0, which is also its result for every odd v.
C9_ScanForward ==
  Called("ScanForward") =>
    /\ ~result.halted
    /\ result.value = NatBV(IF call.value = {} THEN 0 ELSE LowestSetBit)
    /\ (call.value = {} \/ 0 \in call.value) => result.value = {}

\* an operand wider than unsigned int whose lowest set bit is above bit 31
C9_Witness ==
  /\ Called("ScanForward")
  /\ call.value # {} /\ LowestSetBit > 31
  /\ platform.sizes[call.T] > UIntWidth(platform)
  /\ result.value = NatBV(LowestSetBit)

\* a zero operand has given 0
C9_WitnessZero ==
  /\ Called("ScanForward") /\ call.value = {} /\ result.value = {}

\* C10: PopCount(v) is the number of set bits of v, 0 for v = 0, and never
\* more than the width of the operand's type.
C10_PopCount ==
  Called("PopCount") =>
    /\ ~result.halted
    /\ result.value = NatBV(Cardinality(call.value))
    /\ call.value = {} => result.value = {}
    /\ BVLe(result.value, NatBV(platform.sizes[call.T]))

\* every bit of a long long operand is set and counted
C10_Witness ==
  /\ Called("PopCount")
  /\ call.T = "long long"
  /\ call.value = 0..(platform.sizes["long long"] - 1)
  /\ result.value = NatBV(platform.sizes["long long"])

\* C11: the build-time forms ScanForward<T, v>(), ScanReverse<T, v>() and
\* PopCount<T, v>() return what the run-time forms return for the same v, for
\* every constant v of every width, v = 0 included.
C11_StaticAsRuntime ==
  /\ Called("ScanForward<>") =>
        LET runtime == ScanForward(platform, call.T, call.value)
        IN ~runtime.halted /\ result.value = runtime.value
  /\ Called("ScanReverse<>") =>
        LET runtime == ScanReverse(platform, call.T, call.value)
        IN ~runtime.halted /\ result.value = runtime.value
  /\ Called("PopCount<>") =>
        LET runtime == PopCount(platform, call.T, call.value)
        IN ~runtime.halted /\ result.value = runtime.value

\* the same platform under GCC or Clang
NativePlatform == [platform EXCEPT !.toolchain = "gcc"]

Narrowest(T, types) ==
  types[Min({i \in 1..Len(types) : Fits(platform, T, types[i])})]

\* C13 as stated: whatever the widths of int, long and long long are, exactly
\* one native overload of each primitive is enabled for an operand, and it is
\* the one for the narrowest of unsigned int, unsigned long and unsigned long
\* long that the operand fits in.
C13_NarrowestOfThree ==
  (pc = "done" /\ call.op \in BitOps) =>
    /\ ~result.halted
    /\ result.via = Narrowest(call.T, <<"int", "long", "long long">>)

\* the instruction types a toolchain offers for a primitive, narrowest first
Offered(toolchain, op) ==
  CASE toolchain = "gcc" -> <<"int", "long", "long long">>
    [] toolchain = "vs" /\ op = "PopCount" -> <<"short", "int", "long long">>
    [] toolchain = "vs" /\ op # "PopCount" -> <<"long", "long long">>

\* C13, amended: exactly one native overload is enabled, and it is the one
\* for the narrowest of the types the toolchain offers for the primitive that
\* the operand fits in: unsigned int, long and long long under GCC and Clang;
\* unsigned long and __int64 for the scans and unsigned short, int and
\* __int64 for PopCount under Visual Studio.
C13_NarrowestOffered ==
  (pc = "done" /\ call.op \in BitOps) =>
    /\ ~result.halted
    /\ result.via = Narrowest(call.T, Offered(platform.toolchain, call.op))
    /\ platform.toolchain = "gcc" /\ Fits(platform, call.T, "int") =>
         result.via = "int"

\* int < long < long long, and an operand of type unsigned long is scanned
\* by the long overload
C13_Witness ==
  /\ Called("ScanReverse")
  /\ platform.sizes["int"] < platform.sizes["long"]
  /\ platform.sizes["long"] < platform.sizes["long long"]
  /\ call.T = "long"
  /\ result.via = "long"

\* int = long < long long under Visual Studio, and an unsigned short operand
\* is counted by the unsigned short overload
C13_WitnessVs ==
  /\ Called("PopCount")
  /\ platform.toolchain = "vs"
  /\ call.T = "short"
  /\ result.via = "short"

\* the exact product of the operands of an overflow test is not
\* representable in the operands' type
ProductOverflows ==
  Times(call.kLHS, call.kRHS) \ (0..(platform.sizes[call.T] - 1)) # {}

\* C14: for every unsigned width W and all a, b below 2^W,
\* MultiplicationOverflow(a, b) is true exactly when a * b >= 2^W: true for
\* a = 2^W - 1 and b = 2, false for a = 2 and b = 3, false when a or b is 0.
C14_MultiplicationOverflow ==
  (pc = "done" /\ call.op \in OverflowOps) =>
    /\ ~result.halted
    /\ result.value = ProductOverflows
    /\ (call.kLHS = 0..(platform.sizes[call.T] - 1) /\ call.kRHS = {1}) =>
         result.value
    /\ (call.kLHS = {1} /\ call.kRHS = {0, 1}) => ~result.value
    /\ (call.kLHS = {} \/ call.kRHS = {}) => ~result.value

\* the result of an exponentiation that no type of the platform can hold
TooLarge == {-1}

\* value^power as a natural number, or TooLarge once a product of the
\* repeated multiplication needs more than w bits
RECURSIVE ExactPower(_, _, _)
ExactPower(value, power, w) ==
  IF power = 0 THEN {0}
  ELSE LET rest == ExactPower(value, power - 1, w)
           product == Times(value, rest)
       IN IF rest = TooLarge \/ product \ (0..(w - 1)) # {} THEN TooLarge
          ELSE product

\* C15: Power<T, base, e>() yields the exact value of base^e (1 for e = 0,
\* 0^0 included, and base for e = 1) or the build is halted; it never yields a
\* value that has wrapped, and the build is halted exactly when base^e is
\* not representable in T.
C15_Power ==
  (pc = "done" /\ call.op \in PowerOps) =>
    LET exact == ExactPower(call.value, call.power, platform.sizes[call.T])
    IN /\ result.halted <=> exact = TooLarge
       /\ ~result.halted => result.value = exact
       /\ call.power = 0 => ~result.halted /\ result.value = {0}
       /\ call.power = 1 => ~result.halted /\ result.value = call.value

\* the square of 2^(W/2) has halted the build of bits::Power
C15_Witness ==
  /\ Called("Power")
  /\ call.value = {platform.sizes[call.T] \div 2}
  /\ call.power = 2
  /\ result.halted

\* the square of 2^(W/2) - 1 is the largest square a type holds
C15_WitnessExact ==
  /\ Called("mpl::Power")
  /\ call.T = "long long"
  /\ call.value = 0..31
  /\ call.power = 2
  /\ ~result.halted
  /\ result.value = {0} \cup (33..63)

\* the indexes of a call of Mask, and whether all are below the width of T
IndexSet == {call.indexes[i] : i \in 1..Len(call.indexes)}

IndexesWithinType == \A i \in IndexSet : i < platform.sizes[call.T]

\* C16: for every T and every list of bit indexes within [0, bitWidth(T)), in
\* any order, with repeats, or empty, Mask<T>(indexes...) has exactly the bits
\* of the list set; the empty list gives 0.
C16_Mask ==
  ((Called("Mask") \/ Called("Mask<>")) /\ IndexesWithinType) =>
    /\ ~result.halted
    /\ result.value = IndexSet
    /\ call.indexes = <<>> => result.value = {}

\* the highest bit, then the lowest, then the highest again
C16_Witness ==
  /\ Called("Mask")
  /\ call.T = "long long"
  /\ call.indexes = <<63, 0, 63>>
  /\ result.value = {0, 63}

\* the empty list has given 0
C16_WitnessEmpty ==
  /\ Called("Mask") /\ call.indexes = <<>> /\ result.value = {}

\* C17: the build-time Mask<T, i1, ..., in>() is rejected at build time
\* whenever one of its indexes, the first or a later one, is not below
\* bitWidth(T); no such index is accepted and dropped.
C17_MaskRejected ==
  (Called("Mask<>") /\ ~IndexesWithinType) => result.halted

\* C18: after Assign(mask, value, loc) the location holds
\* (value & mask) | (old & ~mask): a Get with the same mask then returns
\* value & mask, the bits outside the mask are those of old, and the bits of
\* value outside the mask have no effect.
C18_Assign ==
  /\ (call.op = "assign" /\ pc \in {"done", "read"}) =>
       /\ location = (call.value \cap call.mask) \cup (call.old \ call.mask)
       /\ location \ call.mask = call.old \ call.mask
       /\ location \cap call.mask = call.value \cap call.mask
  /\ (call.op = "assign" /\ pc = "read") =>
       result.value = call.value \cap call.mask

\* the low half of a byte is assigned from a value with bits in both halves,
\* over a content with bits in both halves, and read back
C18_Witness ==
  /\ call.op = "assign" /\ pc = "read"
  /\ call.T = "char"
  /\ call.mask = 0..3 /\ call.value = {0, 2, 4, 6} /\ call.old = 1..7
  /\ location = {0, 2, 4, 5, 6, 7}
  /\ result.value = {0, 2}

\* C19: Set leaves old | mask in the location and Clear leaves old & ~mask;
\* neither changes a bit outside the mask; Get returns old & mask and leaves
\* the location as it was.
C19_SetClearGet ==
  /\ Called("set") =>
       /\ location = call.old \cup call.mask
       /\ location \ call.mask = call.old \ call.mask
  /\ Called("clear") =>
       /\ location = call.old \ call.mask
       /\ location \ call.mask = call.old \ call.mask
  /\ Called("get") =>
       /\ result.value = call.old \cap call.mask
       /\ location = call.old

\* the high half of a full unsigned short is cleared
C19_Witness ==
  /\ Called("clear")
  /\ call.T = "short"
  /\ call.mask = 8..15 /\ call.old = 0..15
  /\ location = 0..7

\* the lowest bit is set in a location that holds the highest bit
C19_WitnessSet ==
  /\ Called("set")
  /\ call.mask = {0} /\ call.old = {platform.sizes[call.T] - 1}
  /\ location = {0, platform.sizes[call.T] - 1}

\* C20: for every type width, the widths below int included, every
\* build-time mask and value and every prior content, the overload of
\* assign<T, mask, value>(loc) that is selected (nothing, assignment, OR,
\* AND with the inverted mask, merge) leaves the location as the generic
\* merge leaves it.
C20_StaticAssign ==
  Called("assign<>") =>
    /\ ~result.halted
    /\ location =
         assign(platform, call.T, call.mask, call.value, call.old)

\* a type narrower than int: the full mask never equals ~static_cast<T>(0),
\* and a mixed value is merged
C20_Witness ==
  /\ Called("assign<>")
  /\ call.T = "char" /\ platform.sizes["int"] > 8
  /\ call.mask = 0..7 /\ call.value = {0, 2, 4, 6} /\ call.old = 1..7
  /\ result.via = "merge"
  /\ location = {0, 2, 4, 6}

\* each of the five overloads has run
C20_WitnessFull ==
  /\ Called("assign<>") /\ result.via = "full" /\ location = call.value
  /\ call.old # call.value

C20_WitnessEmpty ==
  /\ Called("assign<>") /\ result.via = "empty" /\ call.value # {}

C20_WitnessOr ==
  /\ Called("assign<>") /\ result.via = "or" /\ call.old \ call.mask # {}

C20_WitnessAnd ==
  /\ Called("assign<>") /\ result.via = "and" /\ call.old \ call.mask # {}


(***************************************************************************)
(* Properties of the field values.                                         *)
(***************************************************************************)
\* C22: for every mask of type T, the mask 0, a mask whose lowest run
\* reaches the top bit and the mask of all ones included, LowestBitRun
\* yields an offset and a length with offset + length within the width of
\* T, every bit of the run set, every bit below the offset clear and the
\* bit after the run clear; for mask 0 both are 0.
C22_LowestBitRun ==
  Called("LowestBitRun") =>
    /\ ~result.halted
    /\ result.offset + result.length <= platform.sizes[call.T]
    /\ result.offset..(result.offset + result.length - 1)
         \subseteq call.mask
    /\ call.mask \cap (0..(result.offset - 1)) = {}
    /\ (result.offset + result.length) \notin call.mask
    /\ call.mask = {} => result.offset = 0 /\ result.length = 0


\* the position of the set bit of mask that has i set bits of mask below it
NthSetBit(mask, i) ==
  CHOOSE m \in mask : Cardinality({x \in mask : x < m}) = i

\* the logical value v with bit i moved to the i-th lowest set bit of mask
Spread(mask, v) == {NthSetBit(mask, i) : i \in v}

\* the bits at the set positions of mask, lowest first, packed together
Packed(mask, bits) ==
  {Cardinality({x \in mask : x < m}) : m \in bits \cap mask}

\* the logical value v has no bit at or above position popcount(mask)
FitsMask(mask, v) == v \subseteq 0..(Cardinality(mask) - 1)

\* C21: for every mask of one or more runs and every logical value v below
\* 2^popcount(mask), BitField<T, mask, v>::bits has bit i of v at the
\* position of the i-th lowest set bit of mask and no bit outside mask, and
\* the bits at the set positions of mask packed together are v again.
C21_ToField ==
  (Called("BitField") /\ call.mask # {} /\ FitsMask(call.mask, call.value))
    => /\ ~result.halted
       /\ result.bits = Spread(call.mask, call.value)
       /\ result.bits \subseteq call.mask
       /\ Packed(call.mask, result.bits) = call.value

\* C28: BitField<T, mask, v> is rejected at build time exactly when v has a
\* set bit at or above position popcount(mask), and accepted for every v
\* below 2^popcount(mask); with mask 0 only v = 0 is accepted.
C28_BitFieldRejected ==
  Called("BitField") =>
    (result.halted <=> ~FitsMask(call.mask, call.value))


\* a field value or a transaction has been built, and perhaps written
Built ==
  /\ pc \in {"done", "written"}
  /\ call.op \in {"BitValue", "BitField", "BitTransaction"}
  /\ ~result.halted

\* C23: every field value that can be built (a BitValue, the result of
\* BitField, the result of BitTransaction) has no bit set outside its mask:
\* a BitValue with such a bit is rejected at build time, and the values of
\* BitField and of BitTransaction are never rejected by that check.
C23_BitsWithinMask ==
  /\ Built => result.bits \cap Complement(platform, result.T, result.mask) = {}
  /\ Called("BitValue") =>
       (call.bits \ call.mask # {} <=>
          result.halted /\ result.message = Unreferenced)
  /\ (call.op \in {"BitField", "BitTransaction"} /\ pc = "done"
        /\ result.halted) => result.message # Unreferenced

\* a transaction of three fields of unsigned long long is built, with bits
\* at both ends of its mask
C23_Witness ==
  /\ Built /\ call.op = "BitTransaction" /\ Len(call.fields) = 3
  /\ result.mask = {0} \cup (1..31) \cup (32..62)
  /\ result.bits = {0, 1} \cup (32..62)

\* a BitValue with a bit outside its mask is rejected
C23_WitnessRejected ==
  /\ Called("BitValue") /\ call.mask = {0} /\ call.bits = 0..7
  /\ result.halted


\* the fields of the transaction are all of one type
SameType ==
  \A i, j \in 1..Len(call.fields) : call.fields[i].T = call.fields[j].T

\* no two fields of the transaction, at any two positions, share a mask bit
PairwiseDisjoint ==
  \A i, j \in 1..Len(call.fields) :
    i # j => call.fields[i].mask \cap call.fields[j].mask = {}

\* the fields of the transaction listed in another order
Reordered(order) == [i \in 1..Len(call.fields) |-> call.fields[order[i]]]

\* C24: for every list of one or more fields of one type with pairwise
\* disjoint masks, BitTransaction yields a field value whose mask is the OR
\* of the masks of the fields and whose bits is the OR of their bits,
\* whatever the order the fields are listed in.
C24_Transaction ==
  (Called("BitTransaction") /\ SameType /\ PairwiseDisjoint) =>
    /\ ~result.halted
    /\ result.mask = UNION {call.fields[i].mask : i \in 1..Len(call.fields)}
    /\ result.bits = UNION {call.fields[i].bits : i \in 1..Len(call.fields)}
    /\ \A order \in Permutations(1..Len(call.fields)) :
         LET other == BitTransaction(platform, Reordered(order))
         IN ~other.halted /\ other.mask = result.mask
              /\ other.bits = result.bits

\* three fields of unsigned char in an order that is not that of their masks
C24_Witness ==
  /\ Called("BitTransaction") /\ call.T = "char"
  /\ Len(call.fields) = 3
  /\ call.fields[1].mask = 4..6 /\ call.fields[2].mask = {0}
  /\ call.fields[3].mask = 1..3
  /\ result.mask = 0..6 /\ result.bits = {0, 1} \cup (4..6)


\* C25: BitTransaction is rejected at build time whenever any two of the
\* fields, at any two positions of the list, have masks that share a set
\* bit, and whenever the fields are not all of one type; it is accepted
\* only when the masks are pairwise disjoint.
C25_TransactionRejected ==
  Called("BitTransaction") =>
    /\ ~PairwiseDisjoint => result.halted
    /\ ~SameType => result.halted
    /\ ~result.halted => PairwiseDisjoint /\ SameType

\* the first and the last of three fields overlap, and neither overlaps
\* the one between them
C25_Witness ==
  /\ Called("BitTransaction") /\ Len(call.fields) = 3 /\ SameType
  /\ call.fields[1].mask \cap call.fields[3].mask # {}
  /\ call.fields[1].mask \cap call.fields[2].mask = {}
  /\ call.fields[2].mask \cap call.fields[3].mask = {}
  /\ result.halted /\ result.message = Overlapping

\* fields of two types of the same width are rejected
C25_WitnessType ==
  /\ Called("BitTransaction") /\ PairwiseDisjoint /\ ~SameType
  /\ \A i \in 1..Len(call.fields) :
       platform.sizes[call.fields[i].T] = platform.sizes[call.T]
  /\ result.halted /\ result.message = "All mask types must be the same."


\* the overloads of assign<T, mask, value> whose enabling condition holds
EnabledStrategies ==
  {k \in Strategies :
     AssignEnabled(platform, call.T, call.mask, call.value, k)}

\* the specialisations of BitValue that match <T, mask, bits>
MatchingVariants ==
  {k \in Variants :
     BitValueEnabled(platform, call.T, call.mask, call.bits, k)}

\* C26: for every type width, the widths below int included, and every
\* pair of mask and value, exactly one of the five enabling conditions of
\* the overloads of assign<T, mask, value> holds; and at most one
\* specialisation of BitValue (empty mask, full mask, one bit set, one bit
\* clear) matches every pair of mask and bits, the merging primary template
\* being used when none does.
C26_OneStrategy ==
  /\ Called("assign<>") =>
       /\ Cardinality(EnabledStrategies) = 1
       /\ ~result.halted /\ result.via \in EnabledStrategies
  /\ Called("BitValue") =>
       /\ Cardinality(MatchingVariants) <= 1
       /\ result.halted => result.message = Unreferenced
       /\ ~result.halted =>
            \/ MatchingVariants = {result.variant}
            \/ MatchingVariants = {} /\ result.variant = "merge"

\* the full mask of a type narrower than int: ~mask_ is not 0 in int, and
\* the primary template merges
C26_Witness ==
  /\ Called("BitValue") /\ call.T = "char" /\ platform.sizes["int"] > 8
  /\ call.mask = 0..7 /\ call.bits = {0, 2, 4, 6}
  /\ MatchingVariants = {} /\ result.variant = "merge"

\* the full mask of a type narrower than int with the full value: the
\* overload that ORs is the one enabled
C26_WitnessAssign ==
  /\ Called("assign<>") /\ call.T = "char" /\ platform.sizes["int"] > 8
  /\ call.mask = 0..7 /\ call.value = 0..7
  /\ EnabledStrategies = {"or"}

\* one mask bit with the bit clear
C26_WitnessClear ==
  /\ Called("BitValue") /\ call.mask = {0} /\ call.bits = {}
  /\ result.variant = "clear"


\* C27: for every list of pairwise disjoint fields and every prior content
\* of the location, one write of the transaction leaves the location as the
\* writes of the fields one after another leave it, in any order, and the
\* bits outside the combined mask are as they were.
C27_TransactionWrite ==
  LET combined == BitTransaction(platform, call.fields)
  IN /\ (call.op = "BitTransaction" /\ pc = "written") =>
          /\ location = (call.old \ result.mask) \cup result.bits
          /\ location \ result.mask = call.old \ result.mask
     /\ (call.op = "BitTransaction" /\ pc = "applied") =>
          /\ PairwiseDisjoint /\ ~combined.halted
          /\ location = BitValueSet(platform, combined, call.old)
          /\ location = (call.old \ combined.mask) \cup combined.bits
          /\ location \ combined.mask = call.old \ combined.mask

\* three fields of unsigned char written one by one, the last of the list
\* first, into a location that holds the odd bits
C27_Witness ==
  /\ call.op = "BitTransaction" /\ pc = "applied" /\ call.T = "char"
  /\ Len(call.fields) = 3
  /\ call.fields[1].mask = 4..6 /\ call.fields[2].mask = {0}
  /\ call.fields[3].mask = 1..3
  /\ call.old = {1, 3, 5, 7}
  /\ location = {0, 1, 4, 5, 6, 7}

\* the same transaction written at once
C27_WitnessAtOnce ==
  /\ call.op = "BitTransaction" /\ pc = "written" /\ call.T = "char"
  /\ Len(call.fields) = 3
  /\ call.fields[1].mask = 4..6 /\ call.fields[2].mask = {0}
  /\ call.fields[3].mask = 1..3
  /\ call.old = {1, 3, 5, 7}
  /\ location = {0, 1, 4, 5, 6, 7}


\* the content of its field that a write asks for
Field(write) ==
  CASE write.op = "set" -> write.mask
    [] write.op = "clear" -> {}
    [] write.op = "assign" -> write.value \cap write.mask

\* both threads have stored
BothDone == \A t \in Threads : pc[t] = "done"

\* one thread loaded after the other had stored
Serial == \E t \in Threads : result.after[t]

\* the field of thread t holds what the write of t asked for
Written(t) == location \cap call.writes[t].mask = Field(call.writes[t])

\* the field of thread t holds what it held before the two writes
AsBefore(t) ==
  location \cap call.writes[t].mask = call.old \cap call.writes[t].mask

\* C29: Assign, Set and Clear load, modify and store without a lock or an
\* atomic operation: when two threads write under disjoint masks to one
\* location, every serial order of the two writes leaves both fields
\* written, and the interleaving in which both load before either stores
\* leaves the field of the thread that stored first as it was before.
C29_LostUpdate ==
  BothDone =>
    /\ Serial => \A t \in Threads : Written(t)
    /\ ~Serial => Written(result.last) /\ AsBefore(Other(result.last))
    /\ location \ (call.writes[1].mask \cup call.writes[2].mask)
         = call.old \ (call.writes[1].mask \cup call.writes[2].mask)

\* both threads loaded before either stored, and the set of the low half
\* of an unsigned char by thread 1 is lost
C29_Witness ==
  /\ BothDone /\ ~Serial /\ result.last = 2
  /\ call.T = "char" /\ call.old = {1, 3, 5, 7}
  /\ call.writes[1].op = "set" /\ call.writes[1].mask = 0..3
  /\ call.writes[2].op = "clear" /\ call.writes[2].mask = 4..7
  /\ location = {1, 3}
  /\ ~Written(1)

\* the same two writes one after the other
C29_WitnessSerial ==
  /\ BothDone /\ Serial
  /\ call.T = "char" /\ call.old = {1, 3, 5, 7}
  /\ call.writes[1].op = "set" /\ call.writes[1].mask = 0..3
  /\ call.writes[2].op = "clear" /\ call.writes[2].mask = 4..7
  /\ location = 0..3


\* C30: for every build-time mask, the empty and the full one included and
\* for types narrower than int, and every prior content of the location,
\* get<T, mask>(loc), set<T, mask>(loc), clear<T, mask>(loc) and
\* assign<T, mask>(value, loc) return and leave what get(mask, loc),
\* set(mask, loc), clear(mask, loc) and assign(mask, value, loc) do.
C30_StaticMaskAsRuntime ==
  /\ Called("get<>") =>
       /\ ~result.halted
       /\ result.value = get(platform, call.T, call.mask, call.old)
       /\ location = call.old
  /\ Called("set<>") =>
       /\ ~result.halted
       /\ location = set(platform, call.T, call.mask, call.old)
  /\ Called("clear<>") =>
       /\ ~result.halted
       /\ location = clear(platform, call.T, call.mask, call.old)
  /\ Called("assign<mask>") =>
       /\ ~result.halted
       /\ location =
            assign(platform, call.T, call.mask, call.value, call.old)

====
